---- MODULE Spec2Model ----
(***************************************************************************)
(* Token routing and destination resolution of the Hypernative Slack bot.  *)
(* The in-memory document (destinations, userTokens, tokenToUser,          *)
(* installations), the storage validator, the change-detecting mutator,    *)
(* token issuance, setup, installation, and the per-user alert endpoint    *)
(* POST /webhook/:token, one step per store access or platform call.       *)
(***************************************************************************)
EXTENDS Integers, Sequences, FiniteSets, TLC

\* ---------------------------------------------------------------- bounds
NumUsers == 2
NumTokens == 2
NumTeams == 3
NumChannels == 2
NumRequests == 2
MaxGen == 1
MaxNow == 1
ExpiresIn == 6
MaxTicks == 3
MaxDelay == 1
MaxFlight == 2

\* ------------------------------------------------------ program constants
\* isTokenExpired(expiresAt, bufferMinutes = 5)
ADMIN_USER_ID == 1
BufferMinutes == 5

\* const AUTO_SAVE_INTERVAL = 30000, in milliseconds
AUTO_SAVE_INTERVAL == 30000

UserIds == 1..NumUsers
TokenIds == 1..NumTokens
TeamIds == 1..NumTeams
ChannelIds == 1..NumChannels
Requests == 1..NumRequests
Times == 0..MaxNow

\* undefined (also null): what reading an absent key yields.
Missing == 0

\* "": the one string JavaScript treats as falsy.
EmptyString == -1

\* "constructor": a property every plain object inherits from
\* Object.prototype, and the value found there (the function Object).
Constructor == -2

ObjectFunction == -3

EmptyMap == [x \in {} |-> Missing]

\* !v is false
Truthy(v) == v \notin {Missing, EmptyString}

\* Properties of Object.prototype, which {} and JSON.parse objects inherit.
Inherited == [x \in {Constructor} |-> ObjectFunction]

\* m[k] of a plain JavaScript object: the own property, else the inherited
\* one, else undefined.
Lookup(m, k) ==
    IF k \in DOMAIN m THEN m[k]
    ELSE IF k \in DOMAIN Inherited THEN Inherited[k]
    ELSE Missing

\* m[k] = v
Assign(m, k, v) == [x \in (DOMAIN m) \cup {k} |-> IF x = k THEN v ELSE m[x]]

\* ------------------------------------------------------------ data model
\* store.destinations[userId] = { channel, type: "channel", workspaceId }.
\* wsKey tells a workspaceId key that is present (possibly holding undefined)
\* from one that is absent.
Destination(c, w, k) == [channel |-> c, workspaceId |-> w, wsKey |-> k]

\* A bot credential: the workspace it was issued for and which issue it is.
Credential(t, g) == [team |-> t, gen |-> g]

\* app.client: the process-wide client built from SLACK_BOT_TOKEN.
DefaultClient == Credential(Missing, 0)

\* The installation record stored by the OAuth redirect handler.
Installation(t, tok, rt, exp) ==
    [team |-> t, token |-> tok, refreshToken |-> rt, expiresAt |-> exp]

\* Object.keys(store.installations), in insertion order.
InstalledTeams(insts) == {insts[i].team : i \in 1..Len(insts)}

\* store.installations[teamId]: its position in insertion order, 0 if absent.
InstIndex(insts, t) ==
    IF t \in InstalledTeams(insts)
    THEN CHOOSE i \in 1..Len(insts) : insts[i].team = t
    ELSE 0

\* -------------------------------------------------- the persisted document
\* A field of the parsed document: absent, of a non-object type, or an object.
Field(k, m) == [kind |-> k, map |-> m]

\* !store.f || typeof store.f !== "object"
NotAnObject(f) == f.kind # "object"

\* Object.entries(store.tokenToUser) filtered by
\* !store.userTokens[userId] || store.userTokens[userId] !== token
orphanedTokens(userTokens, tokenToUser) ==
    {t \in DOMAIN tokenToUser :
        \/ ~Truthy(Lookup(userTokens, tokenToUser[t]))
        \/ Lookup(userTokens, tokenToUser[t]) # t}

\* Object.entries(store.userTokens) filtered by
\* !store.tokenToUser[token] || store.tokenToUser[token] !== userId
orphanedUsers(userTokens, tokenToUser) ==
    {u \in DOMAIN userTokens :
        \/ ~Truthy(Lookup(tokenToUser, userTokens[u]))
        \/ Lookup(tokenToUser, userTokens[u]) # u}

\* delete store.m[k] for every k of ks
DeleteAll(m, ks) == [x \in (DOMAIN m) \ ks |-> m[x]]

\* validateStorage(store): the repaired document and whether saveStore ran.
validateStorage(d) ==
    LET destinations == IF NotAnObject(d.destinations) THEN EmptyMap
                        ELSE d.destinations.map
        userTokens == IF NotAnObject(d.userTokens) THEN EmptyMap
                      ELSE d.userTokens.map
        tokenToUser == IF NotAnObject(d.tokenToUser) THEN EmptyMap
                       ELSE d.tokenToUser.map
        installations == IF NotAnObject(d.installations) THEN <<>>
                         ELSE d.installations.map
        oTokens == orphanedTokens(userTokens, tokenToUser)
        tokenToUser2 == DeleteAll(tokenToUser, oTokens)
        oUsers == orphanedUsers(userTokens, tokenToUser2)
        userTokens2 == DeleteAll(userTokens, oUsers)
    IN  [store |-> [destinations |-> destinations,
                    userTokens |-> userTokens2,
                    tokenToUser |-> tokenToUser2,
                    installations |-> installations],
         needsRepair |-> \/ NotAnObject(d.destinations)
                         \/ NotAnObject(d.userTokens)
                         \/ NotAnObject(d.tokenToUser)
                         \/ NotAnObject(d.installations)
                         \/ oTokens # {}
                         \/ oUsers # {}]

\* JSON.stringify(store): a key holding undefined is not written, so a
\* destination whose workspaceId is undefined serializes like one without
\* the key; object keys keep their insertion order (installations).
JSONstringify(s) ==
    [destinations |->
        [u \in DOMAIN s.destinations |->
            [channel |-> s.destinations[u].channel,
             workspaceId |-> s.destinations[u].workspaceId]],
     userTokens |-> s.userTokens,
     tokenToUser |-> s.tokenToUser,
     installations |-> s.installations]

\* A mutator without change detection (what updateStore does): every call
\* counts as a change.
AlwaysChanged(before, after) == TRUE

\* beforeUpdate !== afterUpdate in updateStoreWithChangeDetection
ChangeDetected(before, after) == JSONstringify(before) # JSONstringify(after)

\* ------------------------------------------------------ the backing stores
\* What a file (or the Gist's storage.json) holds: nothing, text JSON.parse
\* rejects (a partial write included), the JSON value null, or a document.
Absent == [kind |-> "absent"]
Garbage == [kind |-> "garbage"]
JsonNull == [kind |-> "null"]
Json(d) == [kind |-> "json", doc |-> d]

\* No Gist, no local file.
NoDisk ==
    [useGist |-> FALSE, gist |-> Absent, file |-> Absent, backup |-> Absent,
     tmp |-> Absent]

\* No saveStore call is running.
NotSaving == [pc |-> "idle"]

\* No request to the Gist is under way; no save has failed and none has
\* been overwritten by an older one.
NoFlight == [calls |-> <<>>, failed |-> FALSE, overtaken |-> FALSE]

\* The newStore literal of loadStore, and initializeStorage's fallback.
newStore ==
    [destinations |-> Field("object", EmptyMap),
     userTokens |-> Field("object", EmptyMap),
     tokenToUser |-> Field("object", EmptyMap),
     installations |-> Field("object", <<>>)]

\* A loader that copies the parsed fields as they are.
Undefaulted(f) == f

\* parsed.f || {}: an absent (or falsy) key becomes an empty object, any
\* other value is kept.
Defaulted(f) == IF f.kind = "missing" THEN Field("object", f.map) ELSE f

\* The store object built from a parsed document.
FromParsed(parsed) ==
    [destinations |-> Defaulted(parsed.destinations),
     userTokens |-> Defaulted(parsed.userTokens),
     tokenToUser |-> Defaulted(parsed.tokenToUser),
     installations |-> Defaulted(parsed.installations)]

\* loadFromGist returns (it throws when the Gist is unreachable or has no
\* storage.json, when JSON.parse throws, and when the parsed value is null).
GistLoads(d) == d.useGist /\ d.gist.kind = "json"

\* readFileSync and JSON.parse return and the parsed value has properties.
FileLoads(d) == d.file.kind = "json"

\* What fs.writeFileSync(PERSIST_PATH, ...) leaves in a file that held old:
\* the new content, or after a throw the old content or a partial write.
Written(old, new, outcome) ==
    CASE outcome = "ok" -> new
      [] outcome = "refused" -> old
      [] OTHER -> Garbage

WriteOutcomes == {"ok", "refused", "partial"}

\* loadStore(): the Gist when configured and readable, else the local file,
\* else a new empty document which it tries to write to the local file.
loadStore(d, created) ==
    IF GistLoads(d) THEN [store |-> FromParsed(d.gist.doc), file |-> d.file]
    ELSE IF FileLoads(d)
         THEN [store |-> FromParsed(d.file.doc), file |-> d.file]
    ELSE [store |-> newStore,
          file |-> Written(d.file, Json(newStore), created)]

\* ------------------------------------------------------------------ state
VARIABLES
    world,  \* the identifiers in play (users, tokens, channels, teams),
            \* which teams rotate tokens, which install or uninstall while
            \* running, whether setup sees the client's team id, the clock
            \* readings, the results the platform gives, and whether the
            \* outcome of non-alert handlers is recorded
    phase,  \* "loaded" before validateStorage has run, "running" after
    store,  \* the in-memory document (STORE): as parsed while "loaded",
            \* its four maps once validated
    out,    \* outcome of the latest non-alert handler, if recorded
    pending,\* users whose setup submission has saved the destination and
            \* has yet to call getUserWebhookURL
    req,    \* the alert deliveries in flight, one record per request
    timer,  \* the periodic auto-save: the time of its latest run,
            \* lastSaveTime, how many runs there were, and what the latest
            \* two runs did
    disk,   \* the backing stores as loadStore and saveStore see them:
            \* whether the Gist is configured, its storage.json, and the
            \* local file with its .backup and .tmp
    saving, \* the saveStore call in progress on the local file, if any
    flight  \* the saveToGist requests that have not returned yet, oldest
            \* first, and what has happened to saves so far

vars ==
    <<world, phase, store, out, pending, req, timer, disk, saving, flight>>

\* The workspace a channel belongs to.
HomeTeam(c) == ((c - 1) % NumTeams) + 1

NoOut == [op |-> "none", user |-> Missing, token |-> Missing,
          generated |-> FALSE, update |-> "none"]

Observe(op, u, t, g, upd) ==
    IF world.observe
    THEN [op |-> op, user |-> u, token |-> t, generated |-> g, update |-> upd]
    ELSE NoOut

\* updateStoreWithChangeDetection: "skipped" when the serialization is
\* unchanged, otherwise saveStore runs and either returns or throws.
\* A mutator without the before/after comparison: every call saves.
UpdateResultUncompared(before, after, saveOk) ==
    IF saveOk THEN "saved" ELSE "failed"

UpdateResult(before, after, saveOk) ==
    IF ~ChangeDetected(before, after) THEN "skipped"
    ELSE IF saveOk THEN "saved" ELSE "failed"

\* A token source that may repeat a token already handed out.
repeatingUUID(s) == world.tokens

\* randomUUID(): a token no entry of the document uses.
randomUUID(s) ==
    {t \in world.tokens :
        /\ t \notin DOMAIN s.tokenToUser
        /\ \A u \in DOMAIN s.userTokens : s.userTokens[u] # t}

\* An update function that forgets the reverse entry.
IssueTokenOneWay(s, u, t) ==
    [s EXCEPT !.userTokens = Assign(@, u, t)]

\* The two assignments of getUserToken's update function.
IssueToken(s, u, t) ==
    [s EXCEPT !.userTokens = Assign(@, u, t),
              !.tokenToUser = Assign(@, t, u)]

\* A getUserToken without the existence check: every call issues a token.
getUserTokenAlwaysNew(u) ==
    \E t \in randomUUID(store), saveOk \in BOOLEAN :
      LET after == IssueToken(store, u, t)
          upd == UpdateResult(store, after, saveOk)
      IN  /\ store' = after
          /\ out' = Observe("getUserToken", u,
                            IF upd = "failed" THEN Missing ELSE t, TRUE, upd)

\* getUserToken(userId, store, updateStore) up to its return. The returned
\* token is Missing when the save throws (the call rejects after the maps
\* were written).
getUserToken(u) ==
    IF Truthy(Lookup(store.userTokens, u))
    THEN /\ out' = Observe("getUserToken", u, store.userTokens[u],
                           FALSE, "none")
         /\ UNCHANGED store
    ELSE \E t \in randomUUID(store), saveOk \in BOOLEAN :
           LET after == IssueToken(store, u, t)
               upd == UpdateResult(store, after, saveOk)
           IN  /\ store' = after
               /\ out' = Observe("getUserToken", u,
                                 IF upd = "failed" THEN Missing ELSE t,
                                 TRUE, upd)

\* getUserWebhookURL as the App Home and /hypernative-config handlers call it.
GetUserToken(u) ==
    /\ phase = "running"
    /\ u \in world.users
    /\ getUserToken(u)
    /\ UNCHANGED <<world, phase, req, pending, timer, disk, saving, flight>>

\* client.team?.id || client.context?.teamId in the setup handler: the
\* workspace of the selected channel, or undefined.
ClientTeam(c) ==
    {IF known THEN HomeTeam(c) ELSE Missing : known \in world.teamKnown}

\* store.destinations[userId] = { channel, type: "channel", workspaceId }
SetDestination(s, u, c, w) ==
    [s EXCEPT !.destinations = Assign(@, u, Destination(c, w, TRUE))]

\* What client.conversations.info gives validateChannelAccess: the channel
\* with its is_private and is_member flags, or the error code it throws.
ChannelInfos ==
    {[thrown |-> "", is_private |-> p, is_member |-> m] :
        p \in BOOLEAN, m \in BOOLEAN} \cup
    {[thrown |-> e, is_private |-> FALSE, is_member |-> FALSE] :
        e \in {"channel_not_found", "not_in_channel", "ratelimited"}}

\* A validation that does not look at membership: any channel the lookup
\* returns is accessible.
validateChannelAccessNoMembership(info) ==
    [accessible |-> info.thrown = "",
     error |-> info.thrown,
     isPrivate |-> info.thrown = "not_in_channel"]

\* validateChannelAccess(client, channelId): a private channel the bot is
\* not a member of and every thrown error are not accessible.
validateChannelAccess(info) ==
    IF info.thrown = ""
    THEN IF info.is_private /\ ~info.is_member
         THEN [accessible |-> FALSE, error |-> "not_in_channel",
               isPrivate |-> TRUE]
         ELSE [accessible |-> TRUE, error |-> "", isPrivate |-> FALSE]
    ELSE [accessible |-> FALSE, error |-> info.thrown,
          isPrivate |-> info.thrown = "not_in_channel"]

\* The setup_destination_modal submission up to the return of its awaited
\* destination write: no channel selected or validateChannelAccess not
\* accessible returns early; a save that throws ends the handler.
SetupSubmit(u, c, accessible) ==
    /\ phase = "running"
    /\ u \in world.users
    /\ c \in world.channels \cup {Missing}
    /\ IF ~Truthy(c) \/ ~accessible
       THEN /\ out' = Observe("setup", u, Missing, FALSE, "none")
            /\ UNCHANGED <<store, pending, flight>>
       ELSE \E w \in ClientTeam(c), saveOk \in BOOLEAN :
              LET after == SetDestination(store, u, c, w)
                  upd == UpdateResult(store, after, saveOk)
              IN  /\ store' = after
                  /\ out' = Observe("setup", u, Missing, FALSE, upd)
                  /\ pending' = IF upd = "failed" THEN pending
                                ELSE pending \cup {u}
    /\ UNCHANGED <<world, phase, req, timer, disk, saving, flight>>

\* The rest of the submission: getUserWebhookURL for the same user.
SetupWebhookURL(u) ==
    /\ phase = "running"
    /\ u \in pending
    /\ getUserToken(u)
    /\ pending' = pending \ {u}
    /\ UNCHANGED <<world, phase, req, timer, disk, saving, flight>>

\* The length of a user id: the first user has a workspace-local id of 11
\* characters, the others have longer, organization-wide ids. Every id
\* starts with "U".
IdLength == [u \in UserIds |-> 9 + 2 * u]

\* translateUserId(client, userId): ids of at most 11 characters are
\* returned as they are; for a longer one the id users.info returns (the
\* local id, here the first user's), or the id itself when that call fails.
translateUserId(userId, infoOk) ==
    IF ~Truthy(userId) \/ IdLength[userId] <= 11 THEN userId
    ELSE IF infoOk THEN 1
    ELSE userId

\* The app_home_opened handler for an event that passes its preliminary
\* checks (user id present, view not disabled): users.info must succeed,
\* the destination is read under the translated id, and a configured user
\* is shown getUserWebhookURL(userId, ...) of the event's own id. What
\* views.publish answers changes nothing in the document.
AppHomeOpened(userId, infoOk, translated) ==
    /\ phase = "running"
    /\ userId \in world.users
    /\ LET localUserId == translateUserId(userId, translated)
           configured ==
              /\ infoOk
              /\ localUserId \in DOMAIN store.destinations
              /\ Truthy(store.destinations[localUserId].channel)
       IN  IF ~configured
           THEN /\ out' = Observe("appHome", localUserId, Missing, FALSE,
                                  "none")
                /\ UNCHANGED store
           ELSE IF Truthy(Lookup(store.userTokens, userId))
           THEN /\ out' = Observe("appHome", localUserId,
                                  store.userTokens[userId], FALSE, "none")
                /\ UNCHANGED store
           ELSE \E t \in randomUUID(store), saveOk \in BOOLEAN :
                  LET after == IssueToken(store, userId, t)
                      upd == UpdateResult(store, after, saveOk)
                  IN  /\ store' = after
                      /\ out' = Observe("appHome", localUserId,
                                        IF upd = "failed" THEN Missing ELSE t,
                                        TRUE, upd)
    /\ UNCHANGED <<world, phase, req, pending, timer, disk, saving, flight>>

\* store.installations[teamId] = installation: an existing key keeps its
\* place in the insertion order, a new key goes last.
PutInstallation(insts, inst) ==
    IF InstIndex(insts, inst.team) # 0
    THEN [insts EXCEPT ![InstIndex(insts, inst.team)] = inst]
    ELSE Append(insts, inst)

\* A cleanup that deletes nothing.
KeepInstallation(insts, t) == insts

\* delete store.installations[teamId], guarded by the key being present
RemoveInstallation(insts, t) ==
    SelectSeq(insts, LAMBDA i : i.team # t)

\* The installation built by the OAuth redirect: refresh token and expiry
\* are set when the workspace has token rotation enabled.
NewInstallation(t, now) ==
    IF t \in world.rotating
    THEN Installation(t, Credential(t, 0), TRUE, now + ExpiresIn)
    ELSE Installation(t, Credential(t, 0), FALSE, Missing)

\* CustomInstallationStore.storeInstallation, called by /slack/oauth_redirect
StoreInstallation(t) ==
    /\ phase = "running"
    /\ t \in world.installable
    /\ \E saveOk \in BOOLEAN, now \in world.times :
         LET after == [store EXCEPT !.installations =
                          PutInstallation(@, NewInstallation(t, now))]
         IN  /\ store' = after
             /\ out' = Observe("install", Missing, Missing, FALSE,
                               UpdateResult(store, after, saveOk))
    /\ UNCHANGED <<world, phase, req, pending, timer, disk, saving, flight>>

\* CustomInstallationStore.deleteInstallation
DeleteInstallation(t) ==
    /\ phase = "running"
    /\ t \in world.installable
    /\ \E saveOk \in BOOLEAN :
         LET after == [store EXCEPT !.installations =
                          RemoveInstallation(@, t)]
         IN  /\ store' = after
             /\ out' = Observe("uninstall", Missing, Missing, FALSE,
                               UpdateResult(store, after, saveOk))
    /\ UNCHANGED <<world, phase, req, pending, timer, disk, saving, flight>>

\* ------------------------------------------- POST /webhook/:token, by step
IdleRequest ==
    [pc |-> "idle", token |-> Missing, payloadOk |-> FALSE,
     userId |-> Missing,
     channel |-> Missing, userWorkspaceId |-> Missing,
     workspaceClient |-> DefaultClient, resolvedByProbe |-> FALSE,
     installation |-> Installation(Missing, DefaultClient, FALSE, Missing),
     entries |-> <<>>, probeIdx |-> 0, probeToken |-> DefaultClient,
     calls |-> <<>>, updates |-> <<>>,
     status |-> 0, error |-> "", ts |-> Missing, postedTo |-> Missing,
     workspace |-> Missing, reinstallUrl |-> FALSE, auth |-> <<>>,
     now |-> 0]

\* The results a call may have, among those the platform gives in this world.
Answers(results) == results \cap world.answers

\* One call to the Slack Web API (or the OAuth endpoint) and its result.
Call(api, cred, result, ts) ==
    [api |-> api, cred |-> cred, result |-> result, ts |-> ts]

\* res.status(code).json({ ok: false, error })
Respond(q, code, err) ==
    [q EXCEPT !.pc = "done", !.status = code, !.error = err]

\* An expiry test without the buffer: only a token past its expiry counts.
isTokenExpiredNoBuffer(expiresAt, now) ==
    /\ Truthy(expiresAt)
    /\ expiresAt <= now

\* isTokenExpired(expiresAt, bufferMinutes = 5) evaluated at time now
isTokenExpired(expiresAt, now) ==
    /\ Truthy(expiresAt)
    /\ expiresAt <= now + BufferMinutes

\* getValidToken up to its first suspension: "refresh" when the token is
\* within the buffer and a refresh token exists; otherwise the stored bot
\* token is what getValidTokenForInstallation returns (directly, or from its
\* catch when getValidToken throws "No refresh token available").
TokenPlan(inst, now) ==
    IF isTokenExpired(inst.expiresAt, now) /\ inst.refreshToken
    THEN "refresh" ELSE "use"

\* The probe loop over Object.entries(installations): the entry at position
\* i is tried next; past the end the loop is over.
ProbePc(entries, i) == IF i > Len(entries) THEN "validate" ELSE "probe"

\* A destination check that tests the entry but not its channel.
RejectionEntryOnly(token, payloadOk) ==
    LET userId == Lookup(store.tokenToUser, token)
    IN  IF ~Truthy(userId) THEN <<404, "token_not_found">>
        ELSE IF ~payloadOk THEN <<400, "bad_payload">>
        ELSE IF userId \notin DOMAIN store.destinations
             THEN <<404, "user_not_configured">>
        ELSE <<0, "">>

\* Lines 31-66: token lookup, payload parsing, destination lookup.
Rejection(token, payloadOk) ==
    LET userId == Lookup(store.tokenToUser, token)
    IN  IF ~Truthy(userId) THEN <<404, "token_not_found">>
        ELSE IF ~payloadOk THEN <<400, "bad_payload">>
        ELSE IF userId \notin DOMAIN store.destinations
                \/ ~Truthy(store.destinations[userId].channel)
             THEN <<404, "user_not_configured">>
        ELSE <<0, "">>

\* A resolution that never takes the direct lookup's credential and always
\* goes on to probe.
ResolveByProbing(q, token, now) ==
    LET userId == store.tokenToUser[token]
        dest == store.destinations[userId]
    IN  [q EXCEPT !.token = token, !.payloadOk = TRUE,
                  !.userId = userId,
                  !.channel = dest.channel,
                  !.userWorkspaceId = dest.workspaceId,
                  !.pc = ProbePc(store.installations, 1),
                  !.entries = store.installations,
                  !.probeIdx = 1]

\* Lines 73-136 for an accepted alert: the direct lookup by the destination's
\* workspaceId, up to the first suspension on the network.
Resolve(q, token, now) ==
    LET userId == store.tokenToUser[token]
        dest == store.destinations[userId]
        userWorkspaceId == dest.workspaceId
        idx == InstIndex(store.installations, userWorkspaceId)
        q1 == [q EXCEPT !.token = token, !.payloadOk = TRUE,
                        !.userId = userId,
                        !.channel = dest.channel,
                        !.userWorkspaceId = userWorkspaceId,
                        !.now = now]
    IN  IF Truthy(userWorkspaceId) /\ idx # 0
        THEN LET installation == store.installations[idx]
             IN IF TokenPlan(installation, now) = "refresh"
                THEN [q1 EXCEPT !.pc = "refresh",
                                !.installation = installation]
                ELSE [q1 EXCEPT !.pc = "validate",
                                !.installation = installation,
                                !.workspaceClient = installation.token]
        ELSE [q1 EXCEPT !.pc = ProbePc(store.installations, 1),
                        !.entries = store.installations,
                        !.probeIdx = 1]

\* req.params.token: any path segment, a token or not.
PathTokens == TokenIds \cup DOMAIN Inherited

Receive(r, token, payloadOk) ==
    /\ phase = "running"
    /\ r \in world.requests
    /\ req[r].pc = "idle"
    /\ token \in PathTokens
    /\ LET rej == Rejection(token, payloadOk)
       IN  IF rej[1] # 0
           THEN req' = [req EXCEPT ![r] =
                           Respond([@ EXCEPT !.token = token,
                                             !.payloadOk = payloadOk],
                                   rej[1], rej[2])]
           ELSE \E now \in world.times :
                   req' = [req EXCEPT ![r] = Resolve(@, token, now)]
    /\ out' = NoOut
    /\ UNCHANGED <<world, phase, store, pending, timer, disk, saving, flight>>

\* updatedInstallation of getValidToken: the snapshot with the new bot token,
\* refresh token and expiry.
RefreshedInstallation(inst, now) ==
    Installation(inst.team, Credential(inst.team, inst.token.gen + 1),
                 TRUE, now + ExpiresIn)

\* An update function without the guard: the refreshed installation is
\* stored whether or not the workspace is still installed.
SaveRefreshedUnguarded(s, updated) ==
    [s EXCEPT !.installations = PutInstallation(@, updated)]

\* The update function of getValidToken: replace the installation only if
\* the workspace is still installed.
SaveRefreshed(s, updated) ==
    IF InstIndex(s.installations, updated.team) # 0
    THEN [s EXCEPT !.installations = PutInstallation(@, updated)]
    ELSE s

\* What getValidTokenForInstallation returns once refreshSlackToken is back:
\* the new access token, or the snapshot's bot token when the refresh failed
\* or saving the refreshed installation threw.
RefreshedToken(inst, updated, success, upd) ==
    IF success /\ upd # "failed" THEN updated.token ELSE inst.token

\* getValidToken from the return of refreshSlackToken (helpers.js 283-326),
\* for the direct lookup ("refresh") and for a probe ("probe_refresh").
RefreshDone(r) ==
    /\ phase = "running"
    /\ req[r].pc \in {"refresh", "probe_refresh"}
    /\ \E result \in Answers({"ok", "error"}), now \in world.times,
          saveOk \in BOOLEAN :
         LET success == (result = "ok")
             q == req[r]
             inst == IF q.pc = "refresh" THEN q.installation
                     ELSE q.entries[q.probeIdx]
             updated == RefreshedInstallation(inst, now)
             after == IF success THEN SaveRefreshed(store, updated) ELSE store
             upd == UpdateResult(store, after, saveOk)
             token == RefreshedToken(inst, updated, success, upd)
             q1 == [q EXCEPT
                      !.calls = Append(@, Call("oauth.v2.access", inst.token,
                                              result, Missing)),
                      !.updates = IF success THEN Append(@, upd) ELSE @]
         IN  /\ success => inst.token.gen < MaxGen
             /\ store' = after
             /\ req' = [req EXCEPT ![r] =
                  IF q.pc = "refresh"
                  THEN [q1 EXCEPT !.pc = "validate", !.workspaceClient = token]
                  ELSE [q1 EXCEPT !.pc = "probe_call", !.probeToken = token]]
    /\ out' = NoOut
    /\ UNCHANGED <<world, phase, pending, timer, disk, saving, flight>>

\* One iteration of the probe loop up to its first suspension: the token of
\* the next installation of the snapshot.
ProbeNext(r) ==
    /\ phase = "running"
    /\ req[r].pc = "probe"
    /\ \E now \in world.times :
         LET q == [req[r] EXCEPT !.now = now]
             inst == q.entries[q.probeIdx]
         IN  req' = [req EXCEPT ![r] =
                IF TokenPlan(inst, now) = "refresh"
                THEN [q EXCEPT !.pc = "probe_refresh"]
                ELSE [q EXCEPT !.pc = "probe_call", !.probeToken = inst.token]]
    /\ out' = NoOut
    /\ UNCHANGED <<world, phase, store, pending, timer, disk, saving, flight>>

\* probeClient.conversations.info({ channel: dest.channel }): on success the
\* loop breaks with this client; on any error it goes to the next entry.
\* A probe loop without its break: a success is recorded and the loop goes on.
ProbedWithoutBreak(q, result) ==
    LET q1 == [q EXCEPT !.calls = Append(@,
                  Call("conversations.info", q.probeToken, result, Missing))]
        q2 == IF result = "ok"
              THEN [q1 EXCEPT !.workspaceClient = q.probeToken,
                              !.userWorkspaceId = q.entries[q.probeIdx].team,
                              !.resolvedByProbe = TRUE]
              ELSE q1
    IN  [q2 EXCEPT !.pc = ProbePc(q.entries, q.probeIdx + 1),
                   !.probeIdx = q.probeIdx + 1]

\* The outcome of one probe: on success the loop breaks with this client
\* and team; on any error it goes to the next entry.
Probed(q, result) ==
    LET q1 == [q EXCEPT !.calls = Append(@,
                  Call("conversations.info", q.probeToken, result, Missing))]
    IN  IF result = "ok"
        THEN [q1 EXCEPT !.pc = "validate",
                        !.workspaceClient = q.probeToken,
                        !.userWorkspaceId = q.entries[q.probeIdx].team,
                        !.resolvedByProbe = TRUE]
        ELSE [q1 EXCEPT !.pc = ProbePc(q.entries, q.probeIdx + 1),
                        !.probeIdx = q.probeIdx + 1]

ProbeCall(r) ==
    /\ phase = "running"
    /\ req[r].pc = "probe_call"
    /\ \E result \in Answers({"ok", "error"}) :
         req' = [req EXCEPT ![r] = Probed(@, result)]
    /\ out' = NoOut
    /\ UNCHANGED <<world, phase, store, pending, timer, disk, saving, flight>>

\* res.status(401).json(createTokenExpiredResponse(userId, workspaceId)):
\* error "token_expired", the workspace and a reinstall_url.
createTokenExpiredResponse(q, workspaceId) ==
    [Respond(q, 401, "token_expired") EXCEPT
        !.workspace = workspaceId, !.reinstallUrl = TRUE]

\* A handler without the isTokenExpiredError branches: an expired credential
\* is rethrown like any other error.
ExpiredRethrown(r, q) ==
    /\ req' = [req EXCEPT ![r] = Respond(q, 500, "internal_error")]
    /\ store' = store

\* isTokenExpiredError branch: cleanupExpiredInstallation(userWorkspaceId)
\* when a workspace id is known (a failed save is logged and swallowed), then
\* 401 createTokenExpiredResponse.
TokenExpired(r, q) ==
    \E saveOk \in BOOLEAN :
      LET after == [store EXCEPT !.installations =
                       RemoveInstallation(@, q.userWorkspaceId)]
          upd == UpdateResult(store, after, saveOk)
          resp == createTokenExpiredResponse(q, q.userWorkspaceId)
      IN  IF Truthy(q.userWorkspaceId)
          THEN /\ store' = after
               /\ req' = [req EXCEPT ![r] =
                            [resp EXCEPT !.updates = Append(@, upd)]]
          ELSE /\ store' = store
               /\ req' = [req EXCEPT ![r] = resp]

\* A catch whose recovery update is not guarded: it throws out of the
\* handler and no response is sent.
InternalErrorUnanswered(r, q) ==
    /\ req' = [req EXCEPT ![r] = [q EXCEPT !.pc = "thrown"]]
    /\ store' = store

\* A catch that also clears the user's destination before answering 500.
InternalErrorClearing(r, q) ==
    /\ req' = [req EXCEPT ![r] =
          [Respond(q, 500, "internal_error") EXCEPT
              !.updates = Append(@, "saved")]]
    /\ store' = [store EXCEPT !.destinations = DeleteAll(@, {q.userId})]

\* The outer catch: the "webhook error recovery" update with an empty update
\* function, then 500 internal_error.
InternalError(r, q) ==
    /\ req' = [req EXCEPT ![r] =
          [Respond(q, 500, "internal_error") EXCEPT
              !.updates = Append(@, UpdateResult(store, store, TRUE))]]
    /\ store' = store

\* A validation that treats every auth.test failure as an expired token.
ValidateStrict(r) ==
    /\ phase = "running"
    /\ req[r].pc = "validate"
    /\ \E result \in Answers({"ok", "token_expired", "error"}) :
         LET q == [req[r] EXCEPT !.calls = Append(@,
                      Call("auth.test", req[r].workspaceClient, result,
                           Missing))]
         IN  IF result # "ok"
             THEN TokenExpired(r, q)
             ELSE /\ req' = [req EXCEPT ![r] = [q EXCEPT !.pc = "send"]]
                  /\ store' = store
    /\ out' = NoOut
    /\ UNCHANGED <<world, phase, pending, timer, disk, saving, flight>>

\* validateSlackToken(workspaceClient): auth.test
Validate(r) ==
    /\ phase = "running"
    /\ req[r].pc = "validate"
    /\ \E result \in Answers({"ok", "token_expired", "error"}) :
         LET q == [req[r] EXCEPT !.calls = Append(@,
                      Call("auth.test", req[r].workspaceClient, result,
                           Missing))]
         IN  IF result = "token_expired"
             THEN TokenExpired(r, q)
             ELSE /\ req' = [req EXCEPT ![r] = [q EXCEPT !.pc = "send"]]
                  /\ store' = store
    /\ out' = NoOut
    /\ UNCHANGED <<world, phase, pending, timer, disk, saving, flight>>

\* post.ts: the platform numbers the messages; here by the position of the
\* postMessage call among the delivery's calls.
MessageTs(q) == Len(q.calls) + 1

\* A handler that reads store.destinations[userId] again when it posts.
PostedToCurrent(q, ts) ==
    [q EXCEPT !.pc = "done", !.status = 200, !.ts = ts,
              !.postedTo = store.destinations[q.userId].channel]

\* return res.json({ ok: true, channel: post.channel, ts: post.ts, user })
Posted(q, ts) ==
    [q EXCEPT !.pc = "done", !.status = 200, !.ts = ts,
              !.postedTo = q.channel]

\* workspaceClient.chat.postMessage({ channel: dest.channel, ... })
Send(r) ==
    /\ phase = "running"
    /\ req[r].pc = "send"
    /\ \E result \in
          Answers({"ok", "token_expired", "channel_not_found", "error"}) :
         LET ts == MessageTs(req[r])
             q == [req[r] EXCEPT !.calls = Append(@,
                      Call("chat.postMessage", req[r].workspaceClient, result,
                           IF result = "ok" THEN ts ELSE Missing))]
         IN  CASE result = "ok" ->
                    /\ req' = [req EXCEPT ![r] = Posted(q, ts)]
                    /\ store' = store
               [] result = "token_expired" -> TokenExpired(r, q)
               [] result = "channel_not_found" ->
                    /\ req' = [req EXCEPT ![r] = [q EXCEPT !.pc = "info"]]
                    /\ store' = store
               [] OTHER -> InternalError(r, q)
    /\ out' = NoOut
    /\ UNCHANGED <<world, phase, pending, timer, disk, saving, flight>>

\* A handler that treats a private channel like a public one and goes on to
\* join it.
PrivateChannelJoined(q) == [q EXCEPT !.pc = "join"]

\* channelInfo.channel.is_private: 404 private_channel, nothing else is called.
PrivateChannel(q) == Respond(q, 404, "private_channel")

\* After channel_not_found: workspaceClient.conversations.info; a private
\* channel ends the delivery with 404 private_channel.
Info(r) ==
    /\ phase = "running"
    /\ req[r].pc = "info"
    /\ \E result \in
          Answers({"public", "private", "token_expired", "error"}) :
         LET q == [req[r] EXCEPT !.calls = Append(@,
                      Call("conversations.info", req[r].workspaceClient,
                           result, Missing))]
         IN  CASE result = "public" ->
                    /\ req' = [req EXCEPT ![r] = [q EXCEPT !.pc = "join"]]
                    /\ store' = store
               [] result = "private" ->
                    /\ req' = [req EXCEPT ![r] = PrivateChannel(q)]
                    /\ store' = store
               [] result = "token_expired" -> TokenExpired(r, q)
               [] OTHER -> InternalError(r, q)
    /\ out' = NoOut
    /\ UNCHANGED <<world, phase, pending, timer, disk, saving, flight>>

\* A handler that answers once it has joined, without posting again.
JoinedWithoutRetry(q) == Respond(q, 404, "channel_not_found")

\* conversations.join returned: the message is posted again.
Joined(q) == [q EXCEPT !.pc = "retry"]

\* workspaceClient.conversations.join({ channel: dest.channel })
Join(r) ==
    /\ phase = "running"
    /\ req[r].pc = "join"
    /\ \E result \in Answers({"ok", "token_expired", "error"}) :
         LET q == [req[r] EXCEPT !.calls = Append(@,
                      Call("conversations.join", req[r].workspaceClient,
                           result, Missing))]
         IN  CASE result = "ok" ->
                    /\ req' = [req EXCEPT ![r] = Joined(q)]
                    /\ store' = store
               [] result = "token_expired" -> TokenExpired(r, q)
               [] OTHER -> InternalError(r, q)
    /\ out' = NoOut
    /\ UNCHANGED <<world, phase, pending, timer, disk, saving, flight>>

\* A retried post that handles channel_not_found as the first post does,
\* looking the channel up and joining again.
RetryRejoining(r) ==
    /\ phase = "running"
    /\ req[r].pc = "retry"
    /\ \E result \in
          Answers({"ok", "token_expired", "channel_not_found", "error"}) :
         LET ts == MessageTs(req[r])
             q == [req[r] EXCEPT !.calls = Append(@,
                      Call("chat.postMessage", req[r].workspaceClient, result,
                           IF result = "ok" THEN ts ELSE Missing))]
         IN  CASE result = "ok" ->
                    /\ req' = [req EXCEPT ![r] = Posted(q, ts)]
                    /\ store' = store
               [] result = "token_expired" -> TokenExpired(r, q)
               [] result = "channel_not_found" ->
                    /\ req' = [req EXCEPT ![r] = [q EXCEPT !.pc = "info"]]
                    /\ store' = store
               [] OTHER -> InternalError(r, q)
    /\ out' = NoOut
    /\ UNCHANGED <<world, phase, pending, timer, disk, saving, flight>>

\* The retried chat.postMessage; any failure lands in catch (joinError).
Retry(r) ==
    /\ phase = "running"
    /\ req[r].pc = "retry"
    /\ \E result \in
          Answers({"ok", "token_expired", "channel_not_found", "error"}) :
         LET ts == MessageTs(req[r])
             q == [req[r] EXCEPT !.calls = Append(@,
                      Call("chat.postMessage", req[r].workspaceClient, result,
                           IF result = "ok" THEN ts ELSE Missing))]
         IN  CASE result = "ok" ->
                    /\ req' = [req EXCEPT ![r] = Posted(q, ts)]
                    /\ store' = store
               [] result = "token_expired" -> TokenExpired(r, q)
               [] OTHER -> InternalError(r, q)
    /\ out' = NoOut
    /\ UNCHANGED <<world, phase, pending, timer, disk, saving, flight>>

\* The response has been sent; the request slot takes the next alert.
Finish(r) ==
    /\ phase = "running"
    /\ req[r].pc = "done"
    /\ req' = [req EXCEPT ![r] = IdleRequest]
    /\ out' = NoOut
    /\ UNCHANGED <<world, phase, store, pending, timer, disk, saving, flight>>

\* ------------------------------------------------ the legacy alert endpoint
\* Strings are sequences of characters. "Bearer " and the shared secret,
\* which is not empty (the process exits at start-up otherwise).
Bearer == <<"B", "e", "a", "r", "e", "r", " ">>
EXTERNAL_WEBHOOK_TOKEN == <<"s", "k">>

\* s.startsWith(p) and s.slice(n)
startsWith(s, p) == Len(s) >= Len(p) /\ SubSeq(s, 1, Len(p)) = p
slice(s, n) == SubSeq(s, n + 1, Len(s))

\* The Authorization headers tried: none (read as ""), the exact one, and
\* near misses in case, spacing, prefix and suffix.
Headers ==
    {<<>>, Bearer, EXTERNAL_WEBHOOK_TOKEN,
     Bearer \o EXTERNAL_WEBHOOK_TOKEN,
     Bearer \o EXTERNAL_WEBHOOK_TOKEN \o <<"x">>,
     Bearer \o <<"s">>,
     Bearer \o <<" ">> \o EXTERNAL_WEBHOOK_TOKEN,
     <<" ">> \o Bearer \o EXTERNAL_WEBHOOK_TOKEN,
     <<"b", "e", "a", "r", "e", "r", " ">> \o EXTERNAL_WEBHOOK_TOKEN,
     <<"B", "e", "a", "r", "e", "r">> \o EXTERNAL_WEBHOOK_TOKEN,
     <<"B", "a", "s", "i", "c", " ">> \o EXTERNAL_WEBHOOK_TOKEN}

\* A check of the scheme alone.
AuthorizedByScheme(auth) == startsWith(auth, Bearer)

\* auth.startsWith("Bearer ") && auth.slice(7) === EXTERNAL_WEBHOOK_TOKEN
Authorized(auth) ==
    startsWith(auth, Bearer) /\ slice(auth, 7) = EXTERNAL_WEBHOOK_TOKEN

\* The channel conversations.open({ users: userId }) returns: the direct
\* message channel with that user, never a configured destination.
DirectChannel(u) == 0 - 10 - u

\* POST /hypernative/webhook up to its first await: the header check, the
\* payload check and the read of STORE.destinations[ADMIN_USER_ID].
LegacyReceive(r, auth, payloadOk) ==
    /\ phase = "running"
    /\ r \in world.requests
    /\ req[r].pc = "idle"
    /\ auth \in Headers
    /\ LET q == [req[r] EXCEPT !.auth = auth, !.payloadOk = payloadOk]
           a == [q EXCEPT !.userId = ADMIN_USER_ID]
       IN  req' = [req EXCEPT ![r] =
              IF ~Authorized(auth) THEN Respond(q, 401, "unauthorized")
              ELSE IF ~payloadOk THEN Respond(q, 400, "bad_payload")
              ELSE IF ADMIN_USER_ID \notin DOMAIN store.destinations
                   THEN [a EXCEPT !.pc = "prompt"]
              ELSE [a EXCEPT
                      !.pc = "post",
                      !.channel = store.destinations[ADMIN_USER_ID].channel]]
    /\ out' = NoOut
    /\ UNCHANGED <<world, phase, store, pending, timer, disk, saving, flight>>

\* ensureDestinationOrPrompt(ADMIN_USER_ID, app.client), every error of
\* which is caught: a setup prompt is posted to the direct message channel
\* with the admin, or nothing is posted; then 202.
LegacyPrompt(r, prompted) ==
    /\ phase = "running"
    /\ req[r].pc = "prompt"
    /\ LET q == req[r]
           c == Call("chat.postMessage", DefaultClient,
                     IF prompted THEN "ok" ELSE "error",
                     IF prompted THEN MessageTs(q) ELSE Missing)
       IN  req' = [req EXCEPT ![r] =
              [q EXCEPT !.pc = "done", !.status = 202,
                        !.calls = Append(@, c),
                        !.postedTo = IF prompted
                                     THEN DirectChannel(ADMIN_USER_ID)
                                     ELSE Missing]]
    /\ out' = NoOut
    /\ UNCHANGED <<world, phase, store, pending, timer, disk, saving, flight>>

\* app.client.chat.postMessage({ token: SLACK_BOT_TOKEN, channel:
\* dest.channel, ... }): 200 with the message, or the catch, which calls
\* saveStore(STORE) (a failure is logged) and answers 500.
LegacyPost(r) ==
    /\ phase = "running"
    /\ req[r].pc = "post"
    /\ \E result \in Answers({"ok", "token_expired", "channel_not_found",
                              "error"}),
          saveOk \in BOOLEAN :
         LET ts == MessageTs(req[r])
             q == [req[r] EXCEPT !.calls = Append(@,
                      Call("chat.postMessage", DefaultClient, result,
                           IF result = "ok" THEN ts ELSE Missing))]
         IN  req' = [req EXCEPT ![r] =
                IF result = "ok" /\ Truthy(q.channel) THEN Posted(q, ts)
                ELSE [Respond(q, 500, "internal_error") EXCEPT
                         !.updates = Append(@, IF saveOk THEN "saved"
                                               ELSE "failed")]]
    /\ out' = NoOut
    /\ UNCHANGED <<world, phase, store, pending, timer, disk, saving, flight>>

\* ---------------------------------------------------------------- start-up
\* const store = await loadStore() in initializeStorage
LoadStore(created) ==
    /\ phase = "boot"
    /\ LET l == loadStore(disk, created)
       IN  /\ store' = l.store
           /\ disk' = [disk EXCEPT !.file = l.file]
    /\ phase' = "loaded"
    /\ UNCHANGED <<world, out, pending, req, timer, saving, flight>>

\* initializeStorage: validateStorage on the loaded document. saveStore is
\* started (not awaited) when a repair was needed.
InitializeStorage ==
    /\ phase = "loaded"
    /\ LET v == validateStorage(store)
       IN  /\ store' = v.store
           /\ out' = Observe("validateStorage", Missing, Missing, FALSE,
                             IF v.needsRepair THEN "saved" ELSE "none")
    /\ phase' = "running"
    /\ UNCHANGED <<world, req, pending, timer, disk, saving, flight>>

\* ------------------------------------------- saveStore on the local file
\* JSON.stringify(store, null, 2) as a file content: the document loadStore
\* would parse back.
Persisted(s) ==
    LET j == JSONstringify(s)
    IN  Json([destinations |-> Field("object", j.destinations),
              userTokens |-> Field("object", j.userTokens),
              tokenToUser |-> Field("object", j.tokenToUser),
              installations |-> Field("object", j.installations)])

\* What fs.copyFileSync leaves at its destination, which held old: the copy;
\* after a throw the old content, or nothing when the half-made copy was
\* unlinked; a partial copy when the process died during the call.
Copied(old, new, outcome) ==
    CASE outcome = "ok" -> new
      [] outcome = "refused" -> old
      [] outcome = "removed" -> Absent
      [] OTHER -> Garbage

CopyOutcomes == {"ok", "refused", "removed", "crashed"}

\* Where saveStore goes after an fs call: on, into its catch, or nowhere
\* when the process died.
AfterCall(outcome, next) ==
    CASE outcome = "ok" -> next
      [] outcome = "crashed" -> "crashed"
      [] OTHER -> "restore"

\* saveStore(store) reaches its local part (the Gist is not configured, or
\* saveToGist threw): the content to write and the live file as it is now.
SaveBegin ==
    /\ phase = "running"
    /\ saving.pc \in {"idle", "returned", "thrown"}
    /\ saving' = [pc |-> "backup", doc |-> Persisted(store),
                  before |-> disk.file]
    /\ out' = NoOut
    /\ UNCHANGED <<world, phase, store, pending, req, timer, disk, flight>>

\* if (fs.existsSync(PERSIST_PATH)) fs.copyFileSync(PERSIST_PATH, backupPath)
SaveBackup(outcome) ==
    /\ saving.pc = "backup"
    /\ IF disk.file = Absent
       THEN /\ outcome = "ok"
            /\ disk' = disk
       ELSE disk' = [disk EXCEPT !.backup = Copied(@, disk.file, outcome)]
    /\ saving' = [saving EXCEPT !.pc = AfterCall(outcome, "write")]
    /\ out' = NoOut
    /\ UNCHANGED <<world, phase, store, pending, req, timer, flight>>

\* fs.writeFileSync(tempPath, JSON.stringify(store, null, 2))
SaveWriteTemp(outcome) ==
    /\ saving.pc = "write"
    /\ disk' = [disk EXCEPT !.tmp = Written(@, saving.doc, outcome)]
    /\ saving' = [saving EXCEPT !.pc = AfterCall(outcome, "rename")]
    /\ out' = NoOut
    /\ UNCHANGED <<world, phase, store, pending, req, timer, flight>>

\* fs.renameSync(tempPath, PERSIST_PATH): the live file is replaced in one
\* step or not at all.
SaveRename(outcome) ==
    /\ saving.pc = "rename"
    /\ outcome \in {"ok", "refused"}
    /\ disk' = IF outcome = "ok"
               THEN [disk EXCEPT !.file = disk.tmp, !.tmp = Absent]
               ELSE disk
    /\ saving' = [saving EXCEPT !.pc = AfterCall(outcome, "returned")]
    /\ out' = NoOut
    /\ UNCHANGED <<world, phase, store, pending, req, timer, flight>>

\* The catch: if (fs.existsSync(backupPath)) fs.copyFileSync(backupPath,
\* PERSIST_PATH), a failure of which is logged; then throw error.
SaveRestore(outcome) ==
    /\ saving.pc = "restore"
    /\ IF disk.backup = Absent
       THEN /\ outcome = "ok"
            /\ disk' = disk
       ELSE disk' = [disk EXCEPT !.file = Copied(@, disk.backup, outcome)]
    /\ saving' = [saving EXCEPT !.pc = IF outcome = "crashed" THEN "crashed"
                                       ELSE "thrown"]
    /\ out' = NoOut
    /\ UNCHANGED <<world, phase, store, pending, req, timer, flight>>

\* ------------------------------------------------------ periodic auto-save
\* One run of the setInterval callback: what it found in memory, whether it
\* called saveStore, and whether that save returned.
Run(doc, called, saveOk) ==
    [doc |-> doc, called |-> called, saved |-> called /\ saveOk]

\* The latest two runs.
LastTwo(runs) ==
    IF Len(runs) > 2 THEN SubSeq(runs, Len(runs) - 1, Len(runs)) ELSE runs

\* setInterval(async () => { ... }, AUTO_SAVE_INTERVAL): the callback runs
\* AUTO_SAVE_INTERVAL milliseconds after the previous run, or later; when
\* now - lastSaveTime >= AUTO_SAVE_INTERVAL it awaits saveStore(STORE) and
\* then sets lastSaveTime; a save that throws is logged.
AutoSave(delay, saveOk) ==
    /\ phase = "running"
    /\ timer.ticks < MaxTicks
    /\ LET now == timer.now + AUTO_SAVE_INTERVAL + delay
           due == now - timer.lastSaveTime >= AUTO_SAVE_INTERVAL
       IN  timer' = [now |-> now,
                     lastSaveTime |-> IF due /\ saveOk THEN now
                                      ELSE timer.lastSaveTime,
                     ticks |-> timer.ticks + 1,
                     runs |-> LastTwo(Append(timer.runs,
                                 Run(JSONstringify(store), due, saveOk)))]
    /\ out' = NoOut
    /\ UNCHANGED <<world, phase, store, pending, req, disk, saving, flight>>

\* --------------------------------------- saveStore with the Gist configured
\* What a restart would load equals what is in memory.
Durable(d, s) == loadStore(d, "ok").store = FromParsed(Persisted(s).doc)

\* saveToGist(store) up to its await: the document is serialized at once and
\* the PATCH request carries that content.
GistRequest(s, op, u, t) ==
    [doc |-> Persisted(s), op |-> op, user |-> u, token |-> t]

\* A callback that goes through updateStoreWithChangeDetection with an empty
\* update function: nothing changed, so saveStore is not called.
AutoSavedIfChanged(calls, s) == calls

\* await saveStore(STORE) in the setInterval callback
AutoSaved(calls, s) ==
    Append(calls, GistRequest(s, "autosave", Missing, Missing))

\* The requests under way without the i-th.
Returned(calls, i) ==
    SubSeq(calls, 1, i - 1) \o SubSeq(calls, i + 1, Len(calls))

\* A getUserToken that suspends between its existence check and its update
\* function: a call that checked before another call wrote issues a token
\* for a user who has one by now.
GetUserTokenBeginSuspended(u) ==
    /\ phase = "running"
    /\ disk.useGist
    /\ u \in world.users
    /\ Len(flight.calls) < MaxFlight
    /\ \E t \in randomUUID(store) :
         LET after == IssueToken(store, u, t)
         IN  /\ store' = after
             /\ flight' = [flight EXCEPT !.calls =
                   Append(@, GistRequest(after, "getUserToken", u, t))]
    /\ out' = NoOut
    /\ UNCHANGED <<world, phase, pending, req, timer, disk, saving>>

\* getUserToken(userId, store, updateStore) up to its first suspension: the
\* existence check, randomUUID() and the update function run in one turn of
\* the event loop, then saveStore is awaited. A user who has a token gets
\* it at once, whether or not the save of that token has returned.
GetUserTokenBegin(u) ==
    /\ phase = "running"
    /\ disk.useGist
    /\ u \in world.users
    /\ IF Truthy(Lookup(store.userTokens, u))
       THEN /\ out' = Observe("getUserToken", u, store.userTokens[u],
                              FALSE, "none")
            /\ UNCHANGED <<store, flight>>
       ELSE /\ Len(flight.calls) < MaxFlight
            /\ \E t \in randomUUID(store) :
                 LET after == IssueToken(store, u, t)
                 IN  /\ store' = after
                     /\ flight' = [flight EXCEPT !.calls =
                           Append(@, GistRequest(after, "getUserToken",
                                                 u, t))]
            /\ out' = NoOut
    /\ UNCHANGED <<world, phase, pending, req, timer, disk, saving>>

\* The setInterval callback with the Gist configured: every run is due (the
\* timer never fires early) and starts a save of the document as it is.
AutoSaveBegin ==
    /\ phase = "running"
    /\ disk.useGist
    /\ Len(flight.calls) < MaxFlight
    /\ flight' = [flight EXCEPT !.calls = AutoSaved(@, store)]
    /\ out' = NoOut
    /\ UNCHANGED <<world, phase, store, pending, req, timer, disk, saving>>

\* A saveStore that writes the local file after a successful PATCH too.
GistDoneWriteThrough(i, ok, fileOk) ==
    /\ i \in 1..Len(flight.calls)
    /\ ok => fileOk
    /\ LET c == flight.calls[i]
           landed == IF ok THEN [disk EXCEPT !.gist = c.doc,
                                             !.file = Persisted(store)]
                     ELSE IF fileOk
                          THEN [disk EXCEPT !.file = Persisted(store)]
                     ELSE disk
           upd == IF ok THEN "saved"
                  ELSE IF fileOk THEN "fallback" ELSE "failed"
       IN  /\ disk' = landed
           /\ flight' =
                [calls |-> Returned(flight.calls, i),
                 failed |-> flight.failed \/ ~ok,
                 overtaken |-> \/ flight.overtaken
                               \/ /\ ok
                                  /\ Durable(disk, store)
                                  /\ ~Durable(landed, store)]
           /\ out' = Observe(c.op, c.user,
                             IF upd = "failed" THEN Missing ELSE c.token,
                             c.op = "getUserToken", upd)
    /\ UNCHANGED <<world, phase, store, pending, req, timer, saving>>

\* A mutator that undoes its update function when the save throws.
GistDoneRollingBack(i, ok, fileOk) ==
    /\ i \in 1..Len(flight.calls)
    /\ ok => fileOk
    /\ LET c == flight.calls[i]
           upd == IF ok THEN "saved"
                  ELSE IF fileOk THEN "fallback" ELSE "failed"
       IN  /\ disk' = IF ok THEN [disk EXCEPT !.gist = c.doc]
                      ELSE IF fileOk
                           THEN [disk EXCEPT !.file = Persisted(store)]
                      ELSE disk
           /\ store' = IF upd = "failed" /\ c.op = "getUserToken"
                       THEN [store EXCEPT
                               !.userTokens = DeleteAll(@, {c.user}),
                               !.tokenToUser = DeleteAll(@, {c.token})]
                       ELSE store
           /\ flight' = [flight EXCEPT !.calls = Returned(@, i),
                                       !.failed = @ \/ ~ok]
           /\ out' = Observe(c.op, c.user,
                             IF upd = "failed" THEN Missing ELSE c.token,
                             c.op = "getUserToken", upd)
    /\ UNCHANGED <<world, phase, pending, req, timer, saving>>

\* A PATCH returns, in any order: on success storage.json holds the content
\* that request carried and saveStore returns; on failure saveStore writes
\* the document as it is now to the local file (backup, temporary file,
\* rename) and returns, or throws when that fails too. The awaiting
\* getUserToken then returns its token or rejects.
GistDone(i, ok, fileOk) ==
    /\ i \in 1..Len(flight.calls)
    /\ ok => fileOk
    /\ LET c == flight.calls[i]
           landed == IF ok THEN [disk EXCEPT !.gist = c.doc]
                     ELSE IF fileOk
                          THEN [disk EXCEPT !.file = Persisted(store)]
                     ELSE disk
           upd == IF ok THEN "saved"
                  ELSE IF fileOk THEN "fallback" ELSE "failed"
       IN  /\ disk' = landed
           /\ flight' =
                [calls |-> Returned(flight.calls, i),
                 failed |-> flight.failed \/ ~ok,
                 overtaken |-> \/ flight.overtaken
                               \/ /\ ok
                                  /\ Durable(disk, store)
                                  /\ ~Durable(landed, store)]
           /\ out' = Observe(c.op, c.user,
                             IF upd = "failed" THEN Missing ELSE c.token,
                             c.op = "getUserToken", upd)
    /\ UNCHANGED <<world, phase, store, pending, req, timer, saving>>

\* ------------------------------------------------- SIGINT and SIGTERM
\* The signals the process handles by saving and exiting.
Signals == {"SIGINT", "SIGTERM"}

\* process.on(signal, async () => { try { await saveStore(STORE) } catch
\* ... ; process.exit(0) }) up to its suspension. With the Gist configured
\* the PATCH request is sent and the handler waits for it. Without it
\* saveStore is synchronous: the file is written or the write throws, and
\* the continuation exits before any other callback runs.
Shutdown(sig, fileOk) ==
    /\ phase = "running"
    /\ sig \in Signals
    /\ IF disk.useGist
       THEN /\ Len(flight.calls) < MaxFlight
            /\ flight' = [flight EXCEPT !.calls =
                  Append(@, GistRequest(store, sig, Missing, Missing))]
            /\ out' = NoOut
            /\ UNCHANGED <<phase, disk>>
       ELSE /\ disk' = IF fileOk THEN [disk EXCEPT !.file = Persisted(store)]
                       ELSE disk
            /\ phase' = "exited"
            /\ out' = Observe(sig, Missing, Missing, FALSE,
                              IF fileOk THEN "saved" ELSE "failed")
            /\ UNCHANGED flight
    /\ UNCHANGED <<world, store, pending, req, timer, saving>>

\* A handler without the try/catch: a save that throws rejects the handler
\* and process.exit is not reached.
ShutdownDoneUncaught(i, ok, fileOk) ==
    /\ phase = "running"
    /\ i \in 1..Len(flight.calls)
    /\ flight.calls[i].op \in Signals
    /\ ok => fileOk
    /\ LET c == flight.calls[i]
           upd == IF ok THEN "saved"
                  ELSE IF fileOk THEN "fallback" ELSE "failed"
       IN  /\ disk' = IF ok THEN [disk EXCEPT !.gist = c.doc]
                      ELSE IF fileOk
                           THEN [disk EXCEPT !.file = Persisted(store)]
                      ELSE disk
           /\ flight' = [flight EXCEPT !.calls = Returned(@, i),
                                       !.failed = @ \/ ~ok]
           /\ phase' = IF upd = "failed" THEN "running" ELSE "exited"
           /\ out' = Observe(c.op, Missing, Missing, FALSE, upd)
    /\ UNCHANGED <<world, store, pending, req, timer, saving>>

\* The handler's saveStore settles: the PATCH succeeded, or it failed and
\* the local file was written, or that failed too and the catch logged it.
\* In each case process.exit(0) follows in the same turn.
ShutdownDone(i, ok, fileOk) ==
    /\ phase = "running"
    /\ i \in 1..Len(flight.calls)
    /\ flight.calls[i].op \in Signals
    /\ ok => fileOk
    /\ LET c == flight.calls[i]
           upd == IF ok THEN "saved"
                  ELSE IF fileOk THEN "fallback" ELSE "failed"
       IN  /\ disk' = IF ok THEN [disk EXCEPT !.gist = c.doc]
                      ELSE IF fileOk
                           THEN [disk EXCEPT !.file = Persisted(store)]
                      ELSE disk
           /\ flight' = [flight EXCEPT !.calls = Returned(@, i),
                                       !.failed = @ \/ ~ok]
           /\ phase' = "exited"
           /\ out' = Observe(c.op, Missing, Missing, FALSE, upd)
    /\ UNCHANGED <<world, store, pending, req, timer, saving>>

\* ------------------------------------------------------- bounded documents
PartialFunctions(A, B) == UNION {[S -> B] : S \in SUBSET A}

\* Destinations as JSON.parse yields them: a workspaceId key is present
\* exactly when it holds a value; legacy entries may lack the channel.
LoadedDestinations(w) ==
    PartialFunctions(w.users,
        {Destination(c, Missing, FALSE) : c \in w.channels} \cup
        {Destination(c, HomeTeam(c), TRUE) :
            c \in {x \in w.channels : TRUE \in w.teamKnown}} \cup
        (IF w.legacy THEN {Destination(Missing, Missing, FALSE)} ELSE {}))

TeamSeq == [i \in 1..NumTeams |-> i]

\* Installations of a set of teams, inserted in ascending order.
LoadedInstallations(w) ==
    {LET ts == SelectSeq(TeamSeq, LAMBDA t : t \in S)
     IN  [i \in 1..Len(ts) |->
            IF ts[i] \in w.rotating
            THEN Installation(ts[i], Credential(ts[i], 0), TRUE, ExpiresIn)
            ELSE Installation(ts[i], Credential(ts[i], 0), FALSE, Missing)]
     : S \in SUBSET w.teams}

\* What loadStore returns: every field defaulted to an object when absent.
LoadedDocs(w) ==
    {[destinations |-> Field("object", d),
      userTokens |-> Field("object", ut),
      tokenToUser |-> Field("object", tu),
      installations |-> Field("object", insts)] :
        d \in LoadedDestinations(w),
        ut \in PartialFunctions(w.users, w.tokens),
        tu \in PartialFunctions(w.tokens, w.users),
        insts \in LoadedInstallations(w)}

\* A field of any parsed document: absent, of a non-object type, or an object.
RawFields(objects, empty) ==
    {Field("missing", empty), Field("scalar", empty)} \cup
    {Field("object", m) : m \in objects}

\* The two token maps range over every pair of partial maps, so entries
\* dangle on either side and users share a token.
RawDocs(users, tokens) ==
    {[destinations |-> d, userTokens |-> ut, tokenToUser |-> tu,
      installations |-> insts] :
        d \in RawFields({EmptyMap}, EmptyMap),
        ut \in RawFields(PartialFunctions(users, tokens), EmptyMap),
        tu \in RawFields(PartialFunctions(tokens, users), EmptyMap),
        insts \in RawFields({<<>>}, <<>>)}

\* Documents whose token maps are empty: every user is new to the program.
FreshDocs(w) ==
    {d \in LoadedDocs(w) :
        d.userTokens.map = EmptyMap /\ d.tokenToUser.map = EmptyMap}

\* ------------------------------------------------------------------ worlds
PlatformResults ==
    {"ok", "error", "token_expired", "channel_not_found", "public", "private"}

\* One user and every workspace, the first with token rotation.
DeliveryWorld ==
    [users |-> {1}, tokens |-> {1}, channels |-> {1},
     teams |-> TeamIds, rotating |-> {1}, installable |-> {2},
     teamKnown |-> {TRUE}, legacy |-> TRUE, times |-> Times,
     answers |-> PlatformResults, observe |-> FALSE, requests |-> {1}]

\* Every user and token, one workspace whose channels the bot has to join,
\* handler outcomes recorded.
TokenWorld ==
    [users |-> UserIds, tokens |-> TokenIds, channels |-> {1},
     teams |-> {1}, rotating |-> {1}, installable |-> {1},
     teamKnown |-> {FALSE}, legacy |-> FALSE, times |-> {MaxNow},
     answers |-> {"ok", "channel_not_found", "public", "token_expired"},
     observe |-> TRUE, requests |-> {1}]

\* Two alerts in flight for one user of one workspace with token rotation,
\* whose stored token is within the expiry buffer.
RaceWorld ==
    [users |-> {1}, tokens |-> {1}, channels |-> {1},
     teams |-> {1}, rotating |-> {1}, installable |-> {1},
     teamKnown |-> {TRUE}, legacy |-> FALSE, times |-> {MaxNow},
     answers |-> PlatformResults, observe |-> FALSE, requests |-> {1, 2}]

\* One alert at a time for a user whose workspace may be installed or
\* uninstalled while the alert is being delivered; a second workspace is
\* there to be probed.
InstallWorld ==
    [users |-> {1}, tokens |-> {1}, channels |-> {1},
     teams |-> {1, 2}, rotating |-> {1}, installable |-> {1},
     teamKnown |-> {TRUE}, legacy |-> FALSE, times |-> Times,
     answers |-> PlatformResults, observe |-> FALSE, requests |-> {1}]

\* Users with local and organization-wide ids who set up a channel, open
\* the App Home and have alerts sent to the URL they were shown; the platform
\* accepts every call of a delivery.
HomeWorld ==
    [users |-> UserIds, tokens |-> TokenIds, channels |-> {1},
     teams |-> {1}, rotating |-> {}, installable |-> {},
     teamKnown |-> {TRUE}, legacy |-> FALSE, times |-> {MaxNow},
     answers |-> {"ok"}, observe |-> TRUE, requests |-> {1}]

\* The legacy endpoint while any user may submit the setup modal.
LegacyWorld ==
    [users |-> UserIds, tokens |-> {1}, channels |-> ChannelIds,
     teams |-> {1}, rotating |-> {}, installable |-> {1},
     teamKnown |-> {TRUE}, legacy |-> FALSE, times |-> {MaxNow},
     answers |-> PlatformResults, observe |-> FALSE, requests |-> {1}]

\* Alerts of two users in flight while either user may submit the setup
\* modal again; the bot may have to join the channel before it can post.
ChannelWorld ==
    [users |-> UserIds, tokens |-> TokenIds, channels |-> ChannelIds,
     teams |-> {1, 2}, rotating |-> {}, installable |-> {},
     teamKnown |-> {TRUE}, legacy |-> FALSE, times |-> {MaxNow},
     answers |-> {"ok", "channel_not_found", "public"}, observe |-> FALSE,
     requests |-> {1, 2}]

Start(w, docs) ==
    /\ world = w
    /\ phase = "loaded"
    /\ store \in docs
    /\ out = NoOut
    /\ pending = {}
    /\ req = [r \in Requests |-> IdleRequest]
    /\ timer = [now |-> 0, lastSaveTime |-> 0, ticks |-> 0, runs |-> <<>>]
    /\ disk = NoDisk
    /\ saving = NotSaving
    /\ flight = NoFlight

Init == Start(DeliveryWorld, LoadedDocs(DeliveryWorld))

InitTokens == Start(TokenWorld, LoadedDocs(TokenWorld))

InitFresh == Start(TokenWorld, FreshDocs(TokenWorld))

InitRace == Start(RaceWorld, LoadedDocs(RaceWorld))

InitInstall == Start(InstallWorld, LoadedDocs(InstallWorld))

\* The workspace is installed; no token has been issued yet and users may
\* or may not have a destination.
InitHome ==
    Start(HomeWorld,
          {d \in FreshDocs(HomeWorld) : Len(d.installations.map) = 1})

InitLegacy == Start(LegacyWorld, LoadedDocs(LegacyWorld))

\* Start-up is over: the loaded document has been validated.
InitStarted ==
    /\ world = DeliveryWorld
    /\ phase = "running"
    /\ store \in {validateStorage(d).store : d \in LoadedDocs(DeliveryWorld)}
    /\ out = NoOut
    /\ pending = {}
    /\ req = [r \in Requests |-> IdleRequest]
    /\ timer = [now |-> 0, lastSaveTime |-> 0, ticks |-> 0, runs |-> <<>>]
    /\ disk = NoDisk
    /\ saving = NotSaving
    /\ flight = NoFlight

\* Every user holds a token and every workspace is installed; any user may
\* or may not have a destination yet.
InitChannels ==
    Start(ChannelWorld,
          {d \in LoadedDocs(ChannelWorld) :
              /\ DOMAIN d.userTokens.map = UserIds
              /\ DOMAIN d.tokenToUser.map = TokenIds
              /\ \A u \in UserIds :
                    d.tokenToUser.map[d.userTokens.map[u]] = u
              /\ Len(d.installations.map) = 2})

\* The document was loaded from the local file, or there was no file.
InitSave ==
    /\ world = TokenWorld
    /\ phase = "loaded"
    /\ store \in FreshDocs(TokenWorld)
    /\ out = NoOut
    /\ pending = {}
    /\ req = [r \in Requests |-> IdleRequest]
    /\ timer = [now |-> 0, lastSaveTime |-> 0, ticks |-> 0, runs |-> <<>>]
    /\ disk \in {[NoDisk EXCEPT !.file = f] :
                    f \in {Absent, Persisted(validateStorage(store).store)}}
    /\ saving = NotSaving
    /\ flight = NoFlight

\* What the Gist or the local file may hold at start-up.
Contents ==
    {Absent, Garbage, JsonNull} \cup {Json(d) : d \in RawDocs({1}, {1})}

\* The process starts: nothing is loaded yet; the Gist, when configured,
\* and the local file hold anything.
InitLoad ==
    /\ world = TokenWorld
    /\ phase = "boot"
    /\ store = newStore
    /\ out = NoOut
    /\ pending = {}
    /\ req = [r \in Requests |-> IdleRequest]
    /\ timer = [now |-> 0, lastSaveTime |-> 0, ticks |-> 0, runs |-> <<>>]
    /\ disk \in {[useGist |-> g, gist |-> c, file |-> f, backup |-> Absent,
                  tmp |-> Absent] :
                    g \in BOOLEAN, c \in Contents, f \in Contents}
    /\ disk.useGist \/ disk.gist = Absent
    /\ saving = NotSaving
    /\ flight = NoFlight

\* The Gist is configured and holds the document that was loaded.
InitGist ==
    /\ world = TokenWorld
    /\ phase = "loaded"
    /\ store \in FreshDocs(TokenWorld)
    /\ out = NoOut
    /\ pending = {}
    /\ req = [r \in Requests |-> IdleRequest]
    /\ timer = [now |-> 0, lastSaveTime |-> 0, ticks |-> 0, runs |-> <<>>]
    /\ disk = [NoDisk EXCEPT !.useGist = TRUE,
                             !.gist = Persisted(validateStorage(store).store)]
    /\ saving = NotSaving
    /\ flight = NoFlight

\* The process before start-up, with or without the Gist configured.
InitShutdown ==
    /\ world = TokenWorld
    /\ phase = "loaded"
    /\ store \in FreshDocs(TokenWorld)
    /\ out = NoOut
    /\ pending = {}
    /\ req = [r \in Requests |-> IdleRequest]
    /\ timer = [now |-> 0, lastSaveTime |-> 0, ticks |-> 0, runs |-> <<>>]
    /\ disk \in {[NoDisk EXCEPT !.useGist = g] : g \in BOOLEAN}
    /\ saving = NotSaving
    /\ flight = NoFlight

\* Any parsed JSON document whose keys and values are strings, the empty
\* string included.
InitValidate ==
    Start(TokenWorld, RawDocs(UserIds \cup {EmptyString},
                              TokenIds \cup {EmptyString}))

Next ==
    \/ InitializeStorage
    \/ \E u \in UserIds : GetUserToken(u)
    \/ \E u \in UserIds, c \in ChannelIds \cup {Missing},
          accessible \in BOOLEAN :
            SetupSubmit(u, c, accessible)
    \/ \E u \in UserIds : SetupWebhookURL(u)
    \/ \E t \in TeamIds : StoreInstallation(t)
    \/ \E t \in TeamIds : DeleteInstallation(t)
    \/ \E r \in Requests, token \in PathTokens, payloadOk \in BOOLEAN :
            Receive(r, token, payloadOk)
    \/ \E r \in Requests : RefreshDone(r)
    \/ \E r \in Requests : ProbeNext(r)
    \/ \E r \in Requests : ProbeCall(r)
    \/ \E r \in Requests : Validate(r)
    \/ \E r \in Requests : Send(r)
    \/ \E r \in Requests : Info(r)
    \/ \E r \in Requests : Join(r)
    \/ \E r \in Requests : Retry(r)
    \/ \E r \in Requests : Finish(r)

\* The alert deliveries alone: no setup, install or uninstall runs meanwhile.
NextDeliveries ==
    \/ InitializeStorage
    \/ \E r \in Requests, token \in PathTokens, payloadOk \in BOOLEAN :
            Receive(r, token, payloadOk)
    \/ \E r \in Requests : RefreshDone(r)
    \/ \E r \in Requests : ProbeNext(r)
    \/ \E r \in Requests : ProbeCall(r)
    \/ \E r \in Requests : Validate(r)
    \/ \E r \in Requests : Send(r)
    \/ \E r \in Requests : Info(r)
    \/ \E r \in Requests : Join(r)
    \/ \E r \in Requests : Retry(r)
    \/ \E r \in Requests : Finish(r)

\* The alert deliveries while workspaces install and uninstall the app.
NextInstall ==
    \/ InitializeStorage
    \/ \E t \in TeamIds : StoreInstallation(t)
    \/ \E t \in TeamIds : DeleteInstallation(t)
    \/ \E r \in Requests, token \in PathTokens, payloadOk \in BOOLEAN :
            Receive(r, token, payloadOk)
    \/ \E r \in Requests : RefreshDone(r)
    \/ \E r \in Requests : ProbeNext(r)
    \/ \E r \in Requests : ProbeCall(r)
    \/ \E r \in Requests : Validate(r)
    \/ \E r \in Requests : Send(r)
    \/ \E r \in Requests : Info(r)
    \/ \E r \in Requests : Join(r)
    \/ \E r \in Requests : Retry(r)
    \/ \E r \in Requests : Finish(r)

\* Setup submissions and App Home visits, under the id of the event, and
\* the alerts sent to the tokens issued.
NextHome ==
    \/ InitializeStorage
    \/ \E e \in UserIds, translated \in BOOLEAN,
          c \in ChannelIds \cup {Missing}, info \in ChannelInfos :
            SetupSubmit(translateUserId(e, translated), c,
                        validateChannelAccess(info).accessible)
    \/ \E u \in UserIds : SetupWebhookURL(u)
    \/ \E e \in UserIds, infoOk \in BOOLEAN, translated \in BOOLEAN :
            AppHomeOpened(e, infoOk, translated)
    \/ \E r \in Requests, token \in PathTokens, payloadOk \in BOOLEAN :
            Receive(r, token, payloadOk)
    \/ \E r \in Requests : Validate(r)
    \/ \E r \in Requests : Send(r)
    \/ \E r \in Requests : Finish(r)

\* The periodic save while users ask for their webhook URL.
NextAutoSave ==
    \/ InitializeStorage
    \/ \E u \in UserIds : GetUserToken(u)
    \/ \E delay \in 0..MaxDelay, saveOk \in BOOLEAN : AutoSave(delay, saveOk)

\* initializeStorage: load, then validate.
NextLoad ==
    \/ \E created \in WriteOutcomes : LoadStore(created)
    \/ InitializeStorage

\* Saves of the local file, one after the other, while users are given
\* tokens between them (the local part of saveStore is synchronous).
NextSave ==
    \/ InitializeStorage
    \/ \E u \in UserIds :
          saving.pc \in {"idle", "returned", "thrown"} /\ GetUserToken(u)
    \/ SaveBegin
    \/ \E outcome \in CopyOutcomes : SaveBackup(outcome)
    \/ \E outcome \in WriteOutcomes \cup {"crashed"} : SaveWriteTemp(outcome)
    \/ \E outcome \in {"ok", "refused"} : SaveRename(outcome)
    \/ \E outcome \in CopyOutcomes : SaveRestore(outcome)

\* Token requests and periodic saves while PATCH requests to the Gist are
\* under way and return in any order.
NextGist ==
    \/ InitializeStorage
    \/ \E u \in UserIds : GetUserTokenBegin(u)
    \/ AutoSaveBegin
    \/ \E i \in 1..MaxFlight, ok \in BOOLEAN, fileOk \in BOOLEAN :
          GistDone(i, ok, fileOk)

\* Token requests, periodic saves and shutdown signals while the process
\* runs; a request of another caller returns only while the process lives.
NextShutdown ==
    \/ InitializeStorage
    \/ \E u \in UserIds : GetUserTokenBegin(u)
    \/ AutoSaveBegin
    \/ \E sig \in Signals, fileOk \in BOOLEAN : Shutdown(sig, fileOk)
    \/ \E i \in 1..MaxFlight, ok \in BOOLEAN, fileOk \in BOOLEAN :
          /\ phase = "running"
          /\ i \in 1..Len(flight.calls)
          /\ flight.calls[i].op \notin Signals
          /\ GistDone(i, ok, fileOk)
    \/ \E i \in 1..MaxFlight, ok \in BOOLEAN, fileOk \in BOOLEAN :
          ShutdownDone(i, ok, fileOk)

\* The next step of delivery r, whichever call it is waiting for.
DeliveryStep(r) ==
    \/ RefreshDone(r)
    \/ ProbeNext(r)
    \/ ProbeCall(r)
    \/ Validate(r)
    \/ Send(r)
    \/ Info(r)
    \/ Join(r)
    \/ Retry(r)

\* Every handler of the running program.
NextStarted ==
    \/ \E u \in UserIds : GetUserToken(u)
    \/ \E u \in UserIds, c \in ChannelIds \cup {Missing},
          accessible \in BOOLEAN :
            SetupSubmit(u, c, accessible)
    \/ \E u \in UserIds : SetupWebhookURL(u)
    \/ \E t \in TeamIds : StoreInstallation(t)
    \/ \E t \in TeamIds : DeleteInstallation(t)
    \/ \E r \in Requests, token \in PathTokens, payloadOk \in BOOLEAN :
            Receive(r, token, payloadOk)
    \/ \E r \in Requests : DeliveryStep(r)
    \/ \E r \in Requests : Finish(r)

\* Requests to the legacy endpoint while users submit the setup modal.
NextLegacy ==
    \/ InitializeStorage
    \/ \E u \in UserIds, c \in ChannelIds \cup {Missing},
          accessible \in BOOLEAN :
            SetupSubmit(u, c, accessible)
    \/ \E u \in UserIds : SetupWebhookURL(u)
    \/ \E r \in Requests, auth \in Headers, payloadOk \in BOOLEAN :
            LegacyReceive(r, auth, payloadOk)
    \/ \E r \in Requests, prompted \in BOOLEAN : LegacyPrompt(r, prompted)
    \/ \E r \in Requests : LegacyPost(r)
    \/ \E r \in Requests : Finish(r)

\* Alert deliveries while users submit the setup modal; no workspace
\* rotates its token.
NextChannels ==
    \/ InitializeStorage
    \/ \E u \in UserIds, c \in ChannelIds \cup {Missing},
          accessible \in BOOLEAN :
            SetupSubmit(u, c, accessible)
    \/ \E u \in UserIds : SetupWebhookURL(u)
    \/ \E r \in Requests, token \in PathTokens, payloadOk \in BOOLEAN :
            Receive(r, token, payloadOk)
    \/ \E r \in Requests : ProbeNext(r)
    \/ \E r \in Requests : ProbeCall(r)
    \/ \E r \in Requests : Validate(r)
    \/ \E r \in Requests : Send(r)
    \/ \E r \in Requests : Info(r)
    \/ \E r \in Requests : Join(r)
    \/ \E r \in Requests : Retry(r)
    \/ \E r \in Requests : Finish(r)

Spec == Init /\ [][Next]_vars

SpecTokens == InitTokens /\ [][Next]_vars

SpecFresh == InitFresh /\ [][Next]_vars

SpecRace == InitRace /\ [][NextDeliveries]_vars

SpecAutoSave == InitFresh /\ [][NextAutoSave]_vars

SpecLoad == InitLoad /\ [][NextLoad]_vars

SpecSave == InitSave /\ [][NextSave]_vars

SpecValidate == InitValidate /\ [][InitializeStorage]_vars

\* Every platform and store call of a delivery returns or fails.
FairDeliveries ==
    /\ InitStarted
    /\ [][NextStarted]_vars
    /\ \A r \in Requests : WF_req(DeliveryStep(r))

SpecInstall == InitInstall /\ [][NextInstall]_vars

SpecHome == InitHome /\ [][NextHome]_vars

SpecLegacy == InitLegacy /\ [][NextLegacy]_vars

SpecChannels == InitChannels /\ [][NextChannels]_vars

SpecGist == InitGist /\ [][NextGist]_vars

SpecShutdown == InitShutdown /\ [][NextShutdown]_vars

\* Start-up completes and the save a signal handler waits for settles: the
\* request to the Gist returns or fails.
FairShutdown ==
    /\ SpecShutdown
    /\ WF_vars(InitializeStorage)
    /\ WF_vars(\E i \in 1..MaxFlight, ok \in BOOLEAN, fileOk \in BOOLEAN :
                  ShutdownDone(i, ok, fileOk))

\* Start-up completes, the timer keeps firing and every request returns or
\* fails: the oldest request under way never waits forever.
FairGist ==
    /\ SpecGist
    /\ WF_vars(InitializeStorage)
    /\ WF_vars(AutoSaveBegin)
    /\ WF_vars(\E ok \in BOOLEAN, fileOk \in BOOLEAN : GistDone(1, ok, fileOk))


\* ------------------------------------------------------------- properties
\* C1: once the loaded document has been validated, userTokens and
\* tokenToUser are mutual inverses in every state reached by any interleaving
\* of getUserToken calls, setup submissions, alert deliveries, installs and
\* purges: userTokens[u] = t implies tokenToUser[t] = u, and tokenToUser[t] = u
\* implies userTokens[u] = t.
C1_MutualInverses ==
    phase = "running" =>
        /\ \A u \in DOMAIN store.userTokens :
              Lookup(store.tokenToUser, store.userTokens[u]) = u
        /\ \A t \in DOMAIN store.tokenToUser :
              Lookup(store.userTokens, store.tokenToUser[t]) = t

\* A token has just been issued, every user now holds one, a destination is
\* set, and a delivery has ended by purging an installation.
C1_Witness ==
    /\ out.op = "getUserToken" /\ out.generated
    /\ DOMAIN store.userTokens = UserIds
    /\ DOMAIN store.destinations # {}
    /\ \E r \in Requests :
          /\ req[r].status = 401
          /\ "skipped" \notin {req[r].updates[i] : i \in 1..Len(req[r].updates)}
          /\ req[r].updates # <<>>

\* C2: whatever document validateStorage was given, once it has returned
\* every userId of userTokens has tokenToUser[userTokens[userId]] = userId and
\* every token of tokenToUser has userTokens[tokenToUser[token]] = token.
C2_ValidatedInverses ==
    out.op = "validateStorage" =>
        /\ \A userId \in DOMAIN store.userTokens :
              /\ store.userTokens[userId] \in DOMAIN store.tokenToUser
              /\ store.tokenToUser[store.userTokens[userId]] = userId
        /\ \A token \in DOMAIN store.tokenToUser :
              /\ store.tokenToUser[token] \in DOMAIN store.userTokens
              /\ store.userTokens[store.tokenToUser[token]] = token

\* C3: a user's token, once written, never changes; a getUserToken call
\* generates exactly when the user has no token yet; every call that returns
\* a token returns the one stored for the user, whose reverse entry is the
\* user (so a second call returns what the first wrote), and a repeated call
\* writes nothing; the user the webhook handler finds for a path token is the
\* one holding that token.
C3_SameTokenTwice ==
    [][phase = "running" =>
         /\ \A u \in DOMAIN store.userTokens :
               Lookup(store'.userTokens, u) = store.userTokens[u]
         /\ out'.op = "getUserToken" =>
               /\ out'.generated = ~Truthy(Lookup(store.userTokens, out'.user))
               /\ Truthy(out'.token) =>
                     /\ Lookup(store'.userTokens, out'.user) = out'.token
                     /\ Lookup(store'.tokenToUser, out'.token) = out'.user
               /\ ~out'.generated => Truthy(out'.token) /\ store' = store
         /\ \A r \in Requests :
               (req[r].pc = "idle" /\ Truthy(req'[r].userId)) =>
                  Lookup(store.userTokens, req'[r].userId) = req'[r].token
      ]_vars

\* Starting with no tokens at all, a getUserToken call has returned a token
\* without generating one: a repeated call for a user first seen in this run.
C3_Witness ==
    /\ out.op = "getUserToken"
    /\ ~out.generated
    /\ Truthy(out.token)
    /\ Lookup(store.tokenToUser, out.token) = out.user

\* C4: a call of updateStoreWithChangeDetection whose update function leaves
\* the serialized document identical does not call saveStore, in the
\* handlers and in the deliveries alike.
C4_NoSaveWithoutChange ==
    [][(phase = "running" /\ JSONstringify(store') = JSONstringify(store)) =>
         /\ out'.update \in {"none", "skipped"}
         /\ \A r \in Requests :
               Len(req'[r].updates) > Len(req[r].updates) =>
                  req'[r].updates[Len(req'[r].updates)] = "skipped"
      ]_vars

\* A setup submission rewrote a destination with the content it already
\* had, and the save was skipped.
C4_Witness ==
    /\ out.op = "setup"
    /\ out.update = "skipped"
    /\ out.user \in DOMAIN store.destinations

\* C5: when an accepted alert's destination carries a workspaceId under
\* which an installation is stored, that installation is the one taken; from
\* then on the delivery never probes, every platform call it makes
\* (validation, send, join, refresh) carries a credential of that workspace,
\* and the only conversations.info it issues is the one that follows a failed
\* post.
C5_DirectCredential ==
    [][\A r \in Requests :
         LET q == req'[r]
         IN  /\ (req[r].pc = "idle" /\ q.pc \notin {"idle", "done"}) =>
                   LET dest == store.destinations[q.userId]
                       idx == InstIndex(store.installations, dest.workspaceId)
                   IN  (Truthy(dest.workspaceId) /\ idx # 0) =>
                          q.installation = store.installations[idx]
             /\ Truthy(q.installation.team) =>
                   /\ q.probeIdx = 0
                   /\ ~q.resolvedByProbe
                   /\ q.userWorkspaceId = q.installation.team
                   /\ q.pc \in {"validate", "send", "info", "join", "retry"}
                         => q.workspaceClient.team = q.installation.team
                   /\ \A i \in 1..Len(q.calls) :
                         /\ q.calls[i].cred.team = q.installation.team
                         /\ q.calls[i].api = "conversations.info" =>
                               /\ i > 1
                               /\ q.calls[i - 1].api = "chat.postMessage"
      ]_vars

\* An alert was delivered with the credential of the destination's own
\* workspace while other workspaces were installed.
C5_Witness ==
    \E r \in Requests :
        /\ req[r].status = 200
        /\ Truthy(req[r].installation.team)
        /\ req[r].calls[Len(req[r].calls)].cred.team = req[r].installation.team
        /\ InstalledTeams(req[r].entries) = {}
        /\ Cardinality(InstalledTeams(store.installations)) > 1

\* The conversations.info calls of the probe loop: those made before the
\* delivery's auth.test.
ProbeCalls(q) ==
    LET tests == {i \in 1..Len(q.calls) : q.calls[i].api = "auth.test"}
        k == IF tests = {} THEN Len(q.calls) + 1
             ELSE CHOOSE i \in tests : \A j \in tests : i <= j
    IN  SelectSeq(SubSeq(q.calls, 1, k - 1),
                  LAMBDA c : c.api = "conversations.info")

\* C6: a delivery that probes tries the stored installations in their stored
\* order, each at most once; every probe before the last one failed; the
\* delivery is resolved by probe exactly when the last probe succeeded, and
\* then that installation's credential and team are the ones used for every
\* later call and no later installation is probed; when no probe succeeded
\* and the loop is over, every installation was probed.
C6_FirstProbeWins ==
    \A r \in Requests :
        LET q == req[r]
            probes == ProbeCalls(q)
            n == Len(probes)
            after == {i \in 1..Len(q.calls) :
                         q.calls[i].api \in {"auth.test", "chat.postMessage",
                                             "conversations.join"}}
        IN  q.probeIdx > 0 =>
              /\ n <= Len(q.entries)
              /\ \A i \in 1..n : probes[i].cred.team = q.entries[i].team
              /\ \A i \in 1..(n - 1) : probes[i].result = "error"
              /\ q.resolvedByProbe = (n > 0 /\ probes[n].result = "ok")
              /\ q.resolvedByProbe =>
                    /\ q.probeIdx = n
                    /\ q.workspaceClient = probes[n].cred
                    /\ q.userWorkspaceId = q.entries[n].team
                    /\ \A i \in after : q.calls[i].cred = probes[n].cred
              /\ (~q.resolvedByProbe /\ after # {}) => n = Len(q.entries)

\* Three installations, the first probe failed, the second succeeded, the
\* message was sent with the second's credential, the third was not probed.
C6_Witness ==
    \E r \in Requests :
        /\ req[r].status = 200
        /\ Len(req[r].entries) = 3
        /\ Len(ProbeCalls(req[r])) = 2
        /\ ProbeCalls(req[r])[1].result = "error"
        /\ ProbeCalls(req[r])[2].result = "ok"
        /\ req[r].calls[Len(req[r].calls)].api = "chat.postMessage"
        /\ req[r].calls[Len(req[r].calls)].cred.team = req[r].entries[2].team

\* C7: a delivery whose destination has no workspaceId and whose probe loop
\* ended without a success posts nothing with any credential and ends with
\* 404 not_configured.
C7_NotConfigured ==
    \A r \in Requests :
        LET q == req[r]
        IN  (/\ q.probeIdx > Len(q.entries)
             /\ ~q.resolvedByProbe
             /\ ~Truthy(q.userWorkspaceId)) =>
               /\ \A i \in 1..Len(q.calls) : q.calls[i].api # "chat.postMessage"
               /\ q.pc = "done" => q.status = 404 /\ q.error = "not_configured"

\* C8: an alert whose path token is no key of tokenToUser is answered 404
\* token_not_found at once, with no platform call, no message and no change
\* of the document.
C8_UnknownToken ==
    [][\A r \in Requests :
         (/\ req[r].pc = "idle"
          /\ req'[r].pc # "idle"
          /\ req'[r].token \notin DOMAIN store.tokenToUser) =>
            /\ req'[r].pc = "done"
            /\ req'[r].status = 404
            /\ req'[r].error = "token_not_found"
            /\ req'[r].calls = <<>>
            /\ req'[r].updates = <<>>
            /\ store' = store
      ]_vars

\* C9: an alert with a known token and a well-formed payload, for a user
\* with no destination entry or an entry without a channel, is answered 404
\* user_not_configured at once: no credential is resolved, no platform call
\* is made and the document does not change.
C9_UserNotConfigured ==
    [][\A r \in Requests :
         LET q == req'[r]
             userId == Lookup(store.tokenToUser, q.token)
         IN  (/\ req[r].pc = "idle"
              /\ q.pc # "idle"
              /\ q.token \in DOMAIN store.tokenToUser
              /\ q.payloadOk
              /\ \/ userId \notin DOMAIN store.destinations
                 \/ ~Truthy(store.destinations[userId].channel)) =>
                /\ q.pc = "done"
                /\ q.status = 404
                /\ q.error = "user_not_configured"
                /\ q.workspaceClient = DefaultClient
                /\ q.probeIdx = 0
                /\ q.calls = <<>>
                /\ q.updates = <<>>
                /\ store' = store
      ]_vars

\* A known token's alert was refused because the user's destination entry
\* has no channel.
C9_Witness ==
    \E r \in Requests :
        /\ req[r].error = "user_not_configured"
        /\ req[r].payloadOk
        /\ req[r].token \in DOMAIN store.tokenToUser
        /\ store.tokenToUser[req[r].token] \in DOMAIN store.destinations
        /\ ~Truthy(store.destinations[store.tokenToUser[req[r].token]].channel)

\* C10: when the first post is refused with channel_not_found the delivery
\* asks for the channel; when the channel is reported public it joins; when
\* the join succeeds it posts again; and when that post succeeds the response
\* is 200 with the second post's ts, all four calls made with the delivery's
\* one credential.
C10_JoinThenDeliver ==
    \A r \in Requests :
        LET q == req[r]
            n == Len(q.calls)
            last == q.calls[n]
        IN  n > 0 =>
              /\ (/\ last.api = "chat.postMessage"
                  /\ last.result = "channel_not_found"
                  /\ q.calls[n - 1].api = "auth.test") => q.pc = "info"
              /\ (last.api = "conversations.info" /\ last.result = "public")
                    => q.pc = "join"
              /\ (last.api = "conversations.join" /\ last.result = "ok")
                    => q.pc = "retry"
              /\ (/\ last.api = "chat.postMessage"
                  /\ last.result = "ok"
                  /\ q.calls[n - 1].api = "conversations.join") =>
                    /\ q.pc = "done"
                    /\ q.status = 200
                    /\ Truthy(q.ts)
                    /\ q.ts = last.ts
                    /\ q.postedTo = q.channel
                    /\ q.calls[n - 1].result = "ok"
                    /\ q.calls[n - 2].result = "public"
                    /\ q.calls[n - 3].result = "channel_not_found"
                    /\ \A i \in (n - 3)..n : q.calls[i].cred = q.workspaceClient

\* The first post was refused, the bot joined the public channel, and the
\* retried post was answered 200.
C10_Witness ==
    \E r \in Requests :
        /\ req[r].status = 200
        /\ \E i \in 1..Len(req[r].calls) :
              /\ req[r].calls[i].api = "conversations.join"
              /\ req[r].calls[i].result = "ok"
        /\ req[r].ts = req[r].calls[Len(req[r].calls)].ts

\* C11: when the channel lookup that follows a refused post reports the
\* destination channel private, the delivery ends there with 404
\* private_channel, it has called conversations.join at no point, and no step
\* of any delivery changes the destinations.
C11_PrivateChannel ==
    [][\A r \in Requests :
         LET q == req'[r]
             n == Len(q.calls)
         IN  /\ req'[r] # req[r] => store'.destinations = store.destinations
             /\ (/\ req[r].pc = "info"
                 /\ q.calls[n].result = "private") =>
                   /\ q.pc = "done"
                   /\ q.status = 404
                   /\ q.error = "private_channel"
                   /\ q.updates = req[r].updates
                   /\ store' = store
                   /\ \A i \in 1..n : q.calls[i].api # "conversations.join"
             /\ (req[r].pc # "done" /\ q.error = "private_channel") =>
                   /\ req[r].pc = "info"
                   /\ q.calls[n].api = "conversations.info"
                   /\ q.calls[n].result = "private"
      ]_vars

\* A configured user's alert was refused with channel_not_found, the channel
\* was reported private, and the delivery was answered 404 private_channel
\* with the user's destination still in place.
C11_Witness ==
    \E r \in Requests :
        /\ req[r].status = 404
        /\ req[r].error = "private_channel"
        /\ req[r].calls[Len(req[r].calls)].result = "private"
        /\ req[r].userId \in DOMAIN store.destinations
        /\ store.destinations[req[r].userId].channel = req[r].channel

\* C12: when auth.test rejects the delivery's credential as expired, the
\* delivery ends with 401 token_expired carrying the workspace and a
\* reinstall_url; a credential taken from an installation is that of the
\* delivery's workspace, and after the step that workspace has no entry in
\* installations, while every other entry and the rest of the document are
\* as before. This holds whether or not the installation has a refresh token,
\* so in particular when it has none.
C12_ExpiredPurged ==
    [][\A r \in Requests :
         LET q == req'[r]
             n == Len(q.calls)
         IN  (/\ req[r].pc = "validate"
              /\ n > Len(req[r].calls)
              /\ q.calls[n].result = "token_expired") =>
                /\ q.pc = "done"
                /\ q.status = 401
                /\ q.error = "token_expired"
                /\ q.reinstallUrl
                /\ q.workspace = q.userWorkspaceId
                /\ Truthy(q.workspaceClient.team) =>
                      q.userWorkspaceId = q.workspaceClient.team
                /\ q.userWorkspaceId \notin InstalledTeams(store'.installations)
                /\ store'.installations =
                      SelectSeq(store.installations,
                                LAMBDA i : i.team # q.userWorkspaceId)
                /\ store'.destinations = store.destinations
                /\ store'.userTokens = store.userTokens
                /\ store'.tokenToUser = store.tokenToUser
      ]_vars

\* A delivery was resolved by probing to an installation without refresh
\* token, auth.test answered token_expired, the installation was removed and
\* saved while another stayed, and the response is 401 with a reinstall_url.
C12_Witness ==
    \E r \in Requests :
        /\ req[r].status = 401
        /\ req[r].reinstallUrl
        /\ req[r].resolvedByProbe
        /\ ~req[r].entries[req[r].probeIdx].refreshToken
        /\ req[r].entries[req[r].probeIdx].team = req[r].workspace
        /\ req[r].calls[Len(req[r].calls)].api = "auth.test"
        /\ req[r].updates = <<"saved">>
        /\ req[r].workspace \notin InstalledTeams(store.installations)
        /\ store.installations # <<>>

\* The installation a delivery took its credential from: the one found under
\* the destination's workspaceId, or the one whose probe succeeded.
UsedInstallation(q) ==
    IF q.resolvedByProbe THEN q.entries[q.probeIdx] ELSE q.installation

\* C13: a delivery that ends with 401 token_expired after auth.test rejected
\* a credential whose installation holds a refresh token has first tried the
\* refresh exchange, after that rejection, and the exchange failed.
C13_RefreshBeforePurge ==
    \A r \in Requests :
        LET q == req[r]
            n == Len(q.calls)
        IN  (/\ q.status = 401
             /\ \E i \in 1..n : /\ q.calls[i].api = "auth.test"
                                /\ q.calls[i].result = "token_expired"
             /\ Truthy(UsedInstallation(q).team)
             /\ UsedInstallation(q).refreshToken) =>
               \E i \in 1..n, j \in 1..n :
                  /\ i < j
                  /\ q.calls[i].api = "auth.test"
                  /\ q.calls[i].result = "token_expired"
                  /\ q.calls[j].api = "oauth.v2.access"
                  /\ q.calls[j].result = "error"

\* Delivery q has exchanged the refresh token of workspace t for a new
\* credential and the rotated installation was saved.
Rotated(q, t) ==
    /\ \E i \in 1..Len(q.calls) :
          /\ q.calls[i].api = "oauth.v2.access"
          /\ q.calls[i].result = "ok"
          /\ q.calls[i].cred.team = t
    /\ \E i \in 1..Len(q.updates) : q.updates[i] = "saved"

\* C14: while the stored installation of a workspace holds a credential that
\* one delivery has rotated and saved, no step of another delivery that
\* holds an older credential of that workspace (taken before the rotation,
\* or kept after its own refresh failed) removes the installation.
C14_RotatedNeverPurged ==
    [][\A r1, r2 \in Requests :
         LET t == req[r2].workspaceClient.team
             idx == InstIndex(store.installations, t)
         IN  (/\ r1 # r2
              /\ Truthy(t)
              /\ idx # 0
              /\ Rotated(req[r1], t)
              /\ store.installations[idx].token.gen
                    > req[r2].workspaceClient.gen
              /\ req'[r2] # req[r2]) =>
                InstIndex(store'.installations, t) # 0
      ]_vars

\* C15: when the post, the channel lookup, the join or the retried post of a
\* delivery fails with token_expired, after auth.test was called, the
\* delivery ends as it does for an expiry found by auth.test: the
\* installation of the workspace in use is removed from installations,
\* nothing else of the document changes, and the response is 401
\* token_expired with that workspace and a reinstall_url.
C15_LateExpiry ==
    [][\A r \in Requests :
         LET q == req'[r]
             n == Len(q.calls)
         IN  (/\ req[r].pc \in {"send", "info", "join", "retry"}
              /\ n > Len(req[r].calls)
              /\ q.calls[n].result = "token_expired") =>
                /\ \E i \in 1..(n - 1) : q.calls[i].api = "auth.test"
                /\ q.pc = "done"
                /\ q.status = 401
                /\ q.error = "token_expired"
                /\ q.reinstallUrl
                /\ q.workspace = q.userWorkspaceId
                /\ q.ts = Missing
                /\ Truthy(q.workspaceClient.team) =>
                      q.userWorkspaceId = q.workspaceClient.team
                /\ q.userWorkspaceId \notin InstalledTeams(store'.installations)
                /\ store' = [store EXCEPT !.installations =
                                SelectSeq(@, LAMBDA i :
                                             i.team # q.userWorkspaceId)]
      ]_vars

\* auth.test passed, the post was refused with channel_not_found, the channel
\* was public, the join failed with token_expired; the installation in use
\* was removed and the response is 401.
C15_Witness ==
    \E r \in Requests :
        LET q == req[r]
            n == Len(q.calls)
        IN  /\ q.status = 401
            /\ q.error = "token_expired"
            /\ n > 3
            /\ q.calls[n].api = "conversations.join"
            /\ q.calls[n].result = "token_expired"
            /\ q.calls[n - 3].api = "auth.test"
            /\ q.calls[n - 3].result = "ok"
            /\ Truthy(UsedInstallation(q).team)
            /\ q.updates[Len(q.updates)] = "saved"
            /\ UsedInstallation(q).team \notin InstalledTeams(store.installations)

\* C16: when the post was refused with channel_not_found, the channel was
\* reported public and the join then fails, the step that records the failed
\* join ends the delivery with an error response and leaves no destination
\* for the user, so that the next alert is refused as user_not_configured.
C16_JoinFailureClears ==
    [][\A r \in Requests :
         LET q == req'[r]
             n == Len(q.calls)
         IN  (/\ req[r].pc = "join"
              /\ n > Len(req[r].calls)
              /\ q.calls[n].result # "ok") =>
                /\ q.pc = "done"
                /\ q.status >= 400
                /\ q.userId \notin DOMAIN store'.destinations
                /\ Rejection(req[r].token, TRUE)' = <<404, "user_not_configured">>
      ]_vars

\* C17: whether or not the saves of a delivery succeed, every call the
\* delivery makes for a workspace after a successful refresh exchange carries
\* the rotated credential, as it does when the save succeeds; and a delivery
\* whose purge could not be saved is still answered 401 token_expired.
C17_SaveFailureHarmless ==
    \A r \in Requests :
        LET q == req[r]
            n == Len(q.calls)
        IN  /\ \A i \in 1..n, j \in 1..n :
                  (/\ i < j
                   /\ q.calls[i].api = "oauth.v2.access"
                   /\ q.calls[i].result = "ok"
                   /\ q.calls[j].cred.team = q.calls[i].cred.team) =>
                      q.calls[j].cred.gen = q.calls[i].cred.gen + 1
            /\ (/\ q.pc = "done"
                /\ n > 0
                /\ q.calls[n].result = "token_expired") =>
                   q.status = 401 /\ q.error = "token_expired"

\* C18: when two consecutive runs of the periodic save found the same
\* document in memory, at most one of them called saveStore and had it
\* write.
C18_OneWritePerChange ==
    (/\ Len(timer.runs) = 2
     /\ timer.runs[1].doc = timer.runs[2].doc) =>
        ~(timer.runs[1].saved /\ timer.runs[2].saved)

StoreFields == {"destinations", "userTokens", "tokenToUser", "installations"}

\* The document loadStore reads, when there is one: the Gist's when the Gist
\* is configured and readable, else the local file's.
SourceDoc ==
    IF GistLoads(disk) THEN disk.gist.doc ELSE disk.file.doc

\* C19: initializeStorage always returns. Whatever the Gist and the local
\* file hold and whether or not the new file can be written, loadStore
\* returns a document with all four keys present, a key absent from the
\* persisted document as an empty object and an object as it was persisted;
\* when neither source can be read, all four are empty. After validation the
\* four are maps: what was persisted as an object, minus orphaned token
\* entries, and an empty map for every key that was absent or not an object.
C19_LoadNeverFails ==
    /\ phase = "boot" => ENABLED (\E c \in WriteOutcomes : LoadStore(c))
    /\ phase = "loaded" =>
          /\ ENABLED InitializeStorage
          /\ \A f \in StoreFields : store[f].kind \in {"object", "scalar"}
          /\ (GistLoads(disk) \/ FileLoads(disk)) =>
                \A f \in StoreFields :
                    /\ SourceDoc[f].kind = "missing" =>
                          store[f] = newStore[f]
                    /\ SourceDoc[f].kind # "missing" =>
                          store[f] = SourceDoc[f]
          /\ ~(GistLoads(disk) \/ FileLoads(disk)) => store = newStore
    /\ phase = "running" =>
          /\ DOMAIN store = StoreFields
          /\ (GistLoads(disk) \/ FileLoads(disk)) =>
                \A f \in StoreFields :
                    /\ SourceDoc[f].kind # "object" =>
                          store[f] = newStore[f].map
                    /\ (f \in {"destinations", "installations"}
                        /\ SourceDoc[f].kind = "object") =>
                          store[f] = SourceDoc[f].map
          /\ ~(GistLoads(disk) \/ FileLoads(disk)) =>
                \A f \in StoreFields : store[f] = newStore[f].map

\* The Gist could not be read, the local file did not parse, the new file
\* could not be written, and initializeStorage has returned the empty
\* document.
C19_Witness ==
    /\ phase = "running"
    /\ disk.useGist
    /\ ~GistLoads(disk)
    /\ disk.file = Garbage
    /\ \A f \in StoreFields : store[f] = newStore[f].map

\* C20: from the moment saveStore starts on the local file until it has
\* returned or thrown, and wherever the process dies in between, the live
\* file holds the complete content it had before the save or the complete
\* new document; and when saveStore has thrown and a backup exists, the live
\* file holds the content it had before the save.
C20_LiveFileComplete ==
    saving.pc # "idle" =>
        /\ disk.file \in {saving.before, saving.doc}
        /\ (saving.pc = "thrown" /\ disk.backup # Absent) =>
              disk.file = saving.before

\* C21: while the program runs, a user's entry in userTokens, once present,
\* is neither changed nor removed by any step (token requests, setup
\* submissions, alert deliveries, installs, uninstalls and purges), and
\* every token a getUserToken call returns for a user who had one is that
\* entry.
C21_TokenImmutable ==
    [][phase = "running" =>
         \A u \in DOMAIN store.userTokens :
            /\ u \in DOMAIN store'.userTokens
            /\ store'.userTokens[u] = store.userTokens[u]
            /\ (out'.op = "getUserToken" /\ out'.user = u) =>
                  out'.token = store.userTokens[u]
      ]_vars

\* A user who already held a token asked again and got the same one, after
\* a delivery had purged the only installation.
C21_Witness ==
    /\ out.op = "getUserToken"
    /\ ~out.generated
    /\ out.user \in DOMAIN store.userTokens
    /\ out.token = store.userTokens[out.user]
    /\ store.installations = <<>>
    /\ \E r \in Requests :
          /\ req[r].status = 401
          /\ req[r].updates # <<>>
          /\ req[r].userId = out.user

C24_EventuallyDurable ==
    <>[](out.update \notin {"failed", "fallback"}) =>
        <>[](phase = "running" /\ Durable(disk, store))

\* Every user has a token, a save has failed, a save has been overwritten
\* by an older one, nothing is under way and the Gist holds the document.
C24_Witness ==
    /\ phase = "running"
    /\ DOMAIN store.userTokens = world.users
    /\ flight.failed
    /\ flight.overtaken
    /\ flight.calls = <<>>
    /\ Durable(disk, store)

\* C25 as stated: every message a request to the legacy endpoint posts goes
\* to the channel of the admin user's destination.
C25_OnlyDestinationChannel ==
    \A r \in Requests :
        Truthy(req[r].postedTo) => req[r].postedTo = req[r].channel

\* The Authorization header is exactly "Bearer " followed by the secret.
ExactHeader(auth) == auth = Bearer \o EXTERNAL_WEBHOOK_TOKEN

\* C25: a request to the legacy endpoint whose Authorization header is not
\* exactly "Bearer " followed by the shared secret is answered 401 at once,
\* with no platform call, no post and no change of the document. A request
\* that posts anything had the exact header and names no per-user token: it
\* posts the alert to the channel read from the admin user's destination
\* (200), or, when the admin user had no destination, a setup prompt to the
\* direct message channel with the admin user (202).
C25_LegacyEndpoint ==
    [][\A r \in Requests :
         LET q == req'[r]
         IN  /\ (req[r].pc = "idle" /\ q.pc # "idle"
                   /\ ~ExactHeader(q.auth)) =>
                   /\ q.pc = "done" /\ q.status = 401
                   /\ q.calls = <<>> /\ ~Truthy(q.postedTo)
             /\ req'[r] # req[r] => store' = store
             /\ Truthy(q.postedTo) =>
                   /\ ExactHeader(q.auth)
                   /\ q.token = Missing
                   /\ q.userId = ADMIN_USER_ID
                   /\ \/ q.status = 200 /\ q.postedTo = q.channel
                      \/ /\ q.status = 202
                         /\ ~Truthy(q.channel)
                         /\ q.postedTo = DirectChannel(ADMIN_USER_ID)
      ]_vars

\* An alert was posted to the admin user's channel after the exact header,
\* while another user has a destination of their own.
C25_Witness ==
    \E r \in Requests :
        /\ req[r].status = 200
        /\ ExactHeader(req[r].auth)
        /\ req[r].postedTo = req[r].channel
        /\ \E u \in DOMAIN store.destinations :
              /\ u # ADMIN_USER_ID
              /\ store.destinations[u].channel # req[r].channel

C27_PostsToResolvedChannel ==
    [][\A r \in Requests :
         LET p == req[r]
             q == req'[r]
             n == Len(q.calls)
         IN  /\ (p.pc = "idle" /\ q.pc \notin {"idle", "done"}) =>
                  /\ q.userId = store.tokenToUser[q.token]
                  /\ q.channel = store.destinations[q.userId].channel
             /\ (p.pc \notin {"idle", "done"}) =>
                  /\ q.token = p.token
                  /\ q.userId = p.userId
                  /\ q.channel = p.channel
             /\ (/\ n > Len(p.calls)
                 /\ q.calls[n].api = "chat.postMessage"
                 /\ q.calls[n].result = "ok") =>
                  q.postedTo = p.channel
             /\ (p.pc # "done" /\ Truthy(q.postedTo)) =>
                  /\ n > Len(p.calls)
                  /\ q.calls[n].api = "chat.postMessage"
      ]_vars

\* Two deliveries for two users have posted to two channels; the first
\* user's destination has since been set to the other user's channel.
C27_Witness ==
    \E r1, r2 \in Requests :
        /\ req[r1].status = 200 /\ req[r2].status = 200
        /\ req[r1].userId # req[r2].userId
        /\ req[r1].postedTo # req[r2].postedTo
        /\ store.destinations[req[r1].userId].channel = req[r2].postedTo
        /\ store.destinations[req[r2].userId].channel = req[r2].postedTo

\* C28: when every call returns or fails, every accepted alert is answered;
\* a delivery has no status until it answers, answers with 200, 400, 401,
\* 404 or 500, and once it has answered nothing of its response changes
\* until the next alert; 200 is the answer only of the step in which a
\* chat.postMessage returned a message.
C28_ExactlyOneResponse ==
    /\ [][\A r \in Requests :
            LET p == req[r]
                q == req'[r]
                n == Len(q.calls)
            IN  /\ p.pc = "done" => (q = p \/ q = IdleRequest)
                /\ q.pc # "done" => q.status = 0
                /\ q.pc = "done" => q.status \in {200, 400, 401, 404, 500}
                /\ (p.pc # "done" /\ q.status = 200) =>
                      /\ n > Len(p.calls)
                      /\ q.calls[n].api = "chat.postMessage"
                      /\ q.calls[n].result = "ok"
         ]_req
    /\ \A r \in Requests : (req[r].pc # "idle") ~> (req[r].pc = "done")

\* A delivery whose post failed has been answered 500 after its recovery
\* update, which found nothing to save.
C28_Witness ==
    \E r \in Requests :
        /\ req[r].pc = "done"
        /\ req[r].status = 500
        /\ req[r].updates # <<>>
        /\ req[r].updates[Len(req[r].updates)] = "skipped"
        /\ \E i \in 1..Len(req[r].calls) :
              /\ req[r].calls[i].api = "chat.postMessage"
              /\ req[r].calls[i].result = "error"

\* C29: getUserToken calls for a user without a token that overlap (one
\* still awaiting its save when the next starts) leave one userTokens entry
\* and one tokenToUser entry for that user, each the inverse of the other;
\* at most one of the calls is awaiting a save, the token it will return is
\* the one in the document, and every call that returns a token returns
\* that one.
C29_OneTokenPerUser ==
    phase = "running" =>
        /\ \A u \in world.users :
              LET held == {t \in DOMAIN store.tokenToUser :
                              store.tokenToUser[t] = u}
              IN  IF u \in DOMAIN store.userTokens
                  THEN held = {store.userTokens[u]}
                  ELSE held = {}
        /\ \A i \in 1..Len(flight.calls) :
              LET c == flight.calls[i]
              IN  c.op = "getUserToken" =>
                    /\ c.user \in DOMAIN store.userTokens
                    /\ store.userTokens[c.user] = c.token
                    /\ \A j \in 1..Len(flight.calls) :
                          (/\ flight.calls[j].op = "getUserToken"
                           /\ flight.calls[j].user = c.user) => j = i
        /\ (out.op = "getUserToken" /\ Truthy(out.token)) =>
              /\ out.user \in DOMAIN store.userTokens
              /\ out.token = store.userTokens[out.user]

\* A second call has returned the token of a user whose first call is
\* still waiting for its save.
C29_Witness ==
    /\ out.op = "getUserToken"
    /\ ~out.generated
    /\ Truthy(out.token)
    /\ \E i \in 1..Len(flight.calls) :
          /\ flight.calls[i].op = "getUserToken"
          /\ flight.calls[i].user = out.user
          /\ flight.calls[i].token = out.token
    /\ DOMAIN store.userTokens = {out.user}
    /\ DOMAIN store.tokenToUser = {out.token}

\* C30: when the token exchange of a delivery succeeds and the workspace of
\* the installation it read is no longer installed, the step changes nothing
\* in the document, the workspace stays absent, and nothing is saved.
C30_NoResurrection ==
    [][\A r \in Requests :
         LET p == req[r]
             q == req'[r]
             n == Len(q.calls)
             inst == IF p.pc = "refresh" THEN p.installation
                     ELSE p.entries[p.probeIdx]
         IN  (/\ p.pc \in {"refresh", "probe_refresh"}
              /\ n > Len(p.calls)
              /\ q.calls[n].result = "ok"
              /\ InstIndex(store.installations, inst.team) = 0) =>
                /\ store' = store
                /\ InstIndex(store'.installations, inst.team) = 0
                /\ q.updates = Append(p.updates, "skipped")
      ]_vars

\* A delivery's exchange succeeded after another delivery, finding the
\* token expired, had purged the installation: the workspace is still absent.
C30_Witness ==
    \E r1, r2 \in Requests :
        LET q == req[r1]
            n == Len(q.calls)
        IN  /\ r1 # r2
            /\ q.pc = "validate"
            /\ n > 0
            /\ q.calls[n].api = "oauth.v2.access"
            /\ q.calls[n].result = "ok"
            /\ q.updates # <<>>
            /\ q.updates[Len(q.updates)] = "skipped"
            /\ Truthy(q.installation.team)
            /\ InstIndex(store.installations, q.installation.team) = 0
            /\ req[r2].status = 401
            /\ req[r2].workspace = q.installation.team
            /\ req[r2].updates # <<>>

\* C31: whenever a step of a delivery whose call was answered token_expired
\* removes an installation, the rejected credential is one of the workspace
\* removed; the default credential's rejection removes nothing.
C31_PurgesRejectedWorkspace ==
    [][\A r \in Requests :
         LET p == req[r]
             q == req'[r]
             n == Len(q.calls)
         IN  (/\ n > Len(p.calls)
              /\ q.calls[n].result = "token_expired") =>
                \A t \in InstalledTeams(store.installations) \
                            InstalledTeams(store'.installations) :
                    q.calls[n].cred.team = t
      ]_vars

\* C32: a setup submission with no channel selected, or whose channel lookup
\* throws (channel_not_found, not_in_channel, anything else) or returns a
\* private channel the bot is not a member of, leaves the document as it was
\* and is not followed by the token request of that submission; any other
\* submission stores the selected channel for the submitting user and leaves
\* every other destination alone. No step that changes destinations is
\* anything but an accepted submission.
C32_RejectedSetupWritesNothing ==
    [][/\ \A u \in UserIds, c \in ChannelIds \cup {Missing},
             info \in ChannelInfos :
            SetupSubmit(u, c, validateChannelAccess(info).accessible) =>
               IF /\ Truthy(c)
                  /\ info.thrown = ""
                  /\ (info.is_private => info.is_member)
               THEN /\ u \in DOMAIN store'.destinations
                    /\ store'.destinations[u].channel = c
                    /\ \A v \in DOMAIN store.destinations \ {u} :
                          /\ v \in DOMAIN store'.destinations
                          /\ store'.destinations[v] = store.destinations[v]
               ELSE /\ store' = store
                    /\ pending' = pending
                    /\ out'.op = "setup"
                    /\ out'.update = "none"
                    /\ ~Truthy(out'.token)
       /\ (phase = "running" /\ store'.destinations # store.destinations) =>
            \E u \in UserIds, c \in ChannelIds, info \in ChannelInfos :
               /\ validateChannelAccess(info).accessible
               /\ SetupSubmit(u, c, TRUE)
      ]_vars

\* A user who has a destination and a token submitted the modal again and
\* was turned down: the destination, the token maps and the pending token
\* requests are as before.
C32_Witness ==
    /\ out.op = "setup"
    /\ out.update = "none"
    /\ out.user \in DOMAIN store.destinations
    /\ Truthy(store.destinations[out.user].channel)
    /\ out.user \in DOMAIN store.userTokens
    /\ DOMAIN store.userTokens = {out.user}
    /\ pending = {}

\* C33: the token the App Home shows to a configured user belongs, in
\* tokenToUser, to the id under which that user's destination is stored,
\* and an alert sent with it is not answered user_not_configured.
C33_ShownTokenResolves ==
    (out.op = "appHome" /\ Truthy(out.token)) =>
        /\ Lookup(store.tokenToUser, out.token) = out.user
        /\ Rejection(out.token, TRUE)[2] # "user_not_configured"

\* C34: when auth.test of the chosen client fails with anything but
\* token_expired, the step changes nothing in the document and nothing of
\* the delivery but its call log: no response is sent, client, channel and
\* workspace stay, and the delivery goes on to chat.postMessage; the call
\* that follows such an auth.test in a delivery is always chat.postMessage
\* with the same credential.
C34_ValidationFailureIgnored ==
    [][\A r \in Requests :
         LET p == req[r]
             q == req'[r]
             n == Len(q.calls)
         IN  /\ (/\ p.pc = "validate"
                 /\ n > Len(p.calls)
                 /\ q.calls[n].result \notin {"ok", "token_expired"}) =>
                   /\ store' = store
                   /\ q = [p EXCEPT
                             !.pc = "send",
                             !.calls = Append(@, Call("auth.test",
                                          p.workspaceClient,
                                          q.calls[n].result, Missing))]
             /\ \A i \in 1..(n - 1) :
                   (/\ q.calls[i].api = "auth.test"
                    /\ q.calls[i].result # "token_expired") =>
                      /\ q.calls[i + 1].api = "chat.postMessage"
                      /\ q.calls[i + 1].cred = q.calls[i].cred
      ]_vars

\* An alert was posted with a workspace's credential although auth.test had
\* failed for it, and the workspace is still installed.
C34_Witness ==
    \E r \in Requests :
        LET q == req[r]
            n == Len(q.calls)
        IN  /\ q.status = 200
            /\ n >= 2
            /\ q.calls[n - 1].api = "auth.test"
            /\ q.calls[n - 1].result = "error"
            /\ q.calls[n].api = "chat.postMessage"
            /\ q.calls[n].cred = q.calls[n - 1].cred
            /\ Truthy(q.calls[n].cred.team)
            /\ q.calls[n].cred.team \in InstalledTeams(store.installations)

\* C35: a delivery calls conversations.join at most once and
\* chat.postMessage at most twice, the second time only after the join; a
\* post made after the join that fails is the delivery's last call, and
\* when it fails with channel_not_found the delivery is answered 500.
C35_JoinAndRetryOnce ==
    \A r \in Requests :
        LET q == req[r]
            n == Len(q.calls)
            joins == {i \in 1..n : q.calls[i].api = "conversations.join"}
            posts == {i \in 1..n : q.calls[i].api = "chat.postMessage"}
        IN  /\ Cardinality(joins) <= 1
            /\ Cardinality(posts) <= 2
            /\ \A i \in posts, j \in posts : i < j => \E k \in joins :
                  i < k /\ k < j
            /\ \A i \in posts, k \in joins :
                  (k < i /\ q.calls[i].result # "ok") =>
                     /\ i = n
                     /\ q.pc = "done"
                     /\ q.calls[i].result = "channel_not_found" =>
                           q.status = 500 /\ q.error = "internal_error"

\* The post retried after the join failed with channel_not_found again and
\* the delivery ended 500 without another join.
C35_Witness ==
    \E r \in Requests :
        LET q == req[r]
            n == Len(q.calls)
        IN  /\ q.pc = "done"
            /\ q.status = 500
            /\ n >= 4
            /\ q.calls[n].api = "chat.postMessage"
            /\ q.calls[n].result = "channel_not_found"
            /\ q.calls[n - 1].api = "conversations.join"
            /\ q.calls[n - 1].result = "ok"
            /\ q.calls[n - 3].api = "chat.postMessage"
            /\ q.calls[n - 3].result = "channel_not_found"

\* C36: with the Gist configured, a saveStore whose PATCH succeeds puts the
\* content it carried into the Gist, leaves the local file alone and
\* returns; one whose PATCH fails leaves the Gist alone and writes the
\* document to the local file; it throws exactly when that local write fails.
C36_RemoteFirstThenLocal ==
    [][\A i \in 1..MaxFlight, ok \in BOOLEAN, fileOk \in BOOLEAN :
         GistDone(i, ok, fileOk) =>
            /\ (out'.update = "failed") <=> (~ok /\ ~fileOk)
            /\ ok => /\ disk'.gist = flight.calls[i].doc
                     /\ disk'.file = disk.file
                     /\ out'.update = "saved"
            /\ ~ok => disk'.gist = disk.gist
            /\ (~ok /\ fileOk) => /\ disk'.file = Persisted(store)
                                  /\ out'.update = "fallback"
      ]_vars

\* A PATCH failed and the document went to the local file instead: the file
\* holds what is in memory and the Gist does not.
C36_Witness ==
    /\ out.update = "fallback"
    /\ disk.file = Persisted(store)
    /\ disk.gist # Persisted(store)
    /\ flight.failed
    /\ DOMAIN store.userTokens # {}

\* C37: a token request whose update function changed the document starts
\* one save; when that save throws, the call rejects, the document in
\* memory keeps both entries, nothing is saved again by that call, and what
\* a restart would load lacks the user's token from the moment it is issued
\* until a step in which a save succeeds.
C37_FailedSaveKeepsMutation ==
    [][/\ \A u \in UserIds :
            (GetUserTokenBegin(u) /\ store' # store) =>
               /\ Len(flight'.calls) = Len(flight.calls) + 1
               /\ flight'.calls[Len(flight'.calls)].doc = Persisted(store')
       /\ \A i \in 1..MaxFlight :
            (GistDone(i, FALSE, FALSE)
               /\ flight.calls[i].op = "getUserToken") =>
               LET c == flight.calls[i]
               IN  /\ out'.update = "failed"
                   /\ ~Truthy(out'.token)
                   /\ store' = store
                   /\ Lookup(store'.userTokens, c.user) = c.token
                   /\ Lookup(store'.tokenToUser, c.token) = c.user
                   /\ disk'.gist = disk.gist
                   /\ Len(flight'.calls) = Len(flight.calls) - 1
       /\ \A u \in UserIds :
            LET unsaved(d, s) ==
                  /\ u \in DOMAIN s.userTokens
                  /\ u \notin DOMAIN loadStore(d, "ok").store.userTokens.map
            IN  (/\ phase = "running"
                 /\ unsaved(disk, store)
                 /\ ~unsaved(disk', store')) => out'.update = "saved"
      ]_vars

\* The save of a new token threw: the token is in memory, the call was
\* rejected, no save is under way and a restart would not load the token.
C37_Witness ==
    /\ out.op = "getUserToken"
    /\ out.update = "failed"
    /\ out.user \in DOMAIN store.userTokens
    /\ out.user \notin DOMAIN loadStore(disk, "ok").store.userTokens.map
    /\ flight.calls = <<>>
    /\ ~Durable(disk, store)

\* C38: validateStorage keeps every pair (u, t) that the document it was
\* given holds in both directions, keeps destinations and installations as
\* they are, and returns a document that had all four maps and token maps
\* inverse to each other unchanged, starting no save.
C38_ValidateKeepsConsistent ==
    [][phase = "loaded" =>
         LET ut == store.userTokens
             tu == store.tokenToUser
             paired == {u \in DOMAIN ut.map :
                          /\ ut.map[u] \in DOMAIN tu.map
                          /\ tu.map[ut.map[u]] = u}
             whole == /\ \A f \in {"destinations", "userTokens",
                                   "tokenToUser", "installations"} :
                            store[f].kind = "object"
                      /\ paired = DOMAIN ut.map
                      /\ \A t \in DOMAIN tu.map :
                            /\ tu.map[t] \in DOMAIN ut.map
                            /\ ut.map[tu.map[t]] = t
         IN  /\ (ut.kind = "object" /\ tu.kind = "object") =>
                   \A u \in paired :
                      /\ u \in DOMAIN store'.userTokens
                      /\ store'.userTokens[u] = ut.map[u]
                      /\ ut.map[u] \in DOMAIN store'.tokenToUser
                      /\ store'.tokenToUser[ut.map[u]] = u
             /\ store.destinations.kind = "object" =>
                   store'.destinations = store.destinations.map
             /\ store.installations.kind = "object" =>
                   store'.installations = store.installations.map
             /\ whole =>
                   /\ store'.userTokens = ut.map
                   /\ store'.tokenToUser = tu.map
                   /\ out'.update = "none"
      ]_vars

\* C39: the per-user alert endpoint checks the token first, then the payload,
\* then the destination. A request with a malformed payload whose path token
\* is no key of tokenToUser is answered 404 token_not_found; one whose path
\* token is a key of tokenToUser is answered 400 bad_payload, whether or not
\* the user has a destination. Either way the request makes no platform call
\* and the document, in memory and on disk, is unchanged.
C39_ChecksInOrder ==
    [][\A r \in Requests, token \in PathTokens :
         Receive(r, token, FALSE) =>
            /\ req'[r].pc = "done"
            /\ IF token \in DOMAIN store.tokenToUser
               THEN req'[r].status = 400 /\ req'[r].error = "bad_payload"
               ELSE req'[r].status = 404 /\ req'[r].error = "token_not_found"
            /\ req'[r].calls = <<>>
            /\ store' = store
            /\ disk' = disk
            /\ pending' = pending]_vars

\* C40: a SIGINT or SIGTERM handler attempts one save of the document as it
\* is in memory and then exits, whether the save succeeds or fails. The
\* handler's run starts exactly one save (one PATCH carrying the document,
\* or one write of the local file); the step in which that save settles, with
\* any outcome, is the step in which the process exits; nothing runs after
\* the exit; and once a signal was received the process does exit.
C40_OneSaveThenExit ==
    /\ [][/\ \A sig \in Signals, fileOk \in BOOLEAN :
               Shutdown(sig, fileOk) =>
                  IF disk.useGist
                  THEN /\ flight'.calls =
                             Append(flight.calls,
                                    GistRequest(store, sig, Missing, Missing))
                       /\ disk' = disk
                  ELSE /\ flight' = flight
                       /\ disk'.file \in {disk.file, Persisted(store)}
                       /\ phase' = "exited"
          /\ out'.op \in Signals =>
                /\ phase' = "exited"
                /\ disk.useGist =>
                      Len(flight'.calls) = Len(flight.calls) - 1
          /\ phase # "exited"]_vars
    /\ (\E i \in 1..MaxFlight :
           i <= Len(flight.calls) /\ flight.calls[i].op \in Signals)
          ~> (phase = "exited")

\* Witness for C40: the process has exited after a signal handler's save
\* failed, at the Gist and at the local file.
C40_Witness ==
    /\ phase = "exited"
    /\ out.op \in Signals
    /\ out.update = "failed"
    /\ disk.useGist

====
